---- MODULE Spec2Model ----
(***************************************************************************)
(* A model of nali-rs: the byte-level readers of its binary IP databases   *)
(* (QQwry, ZX IPv6, IPIP) and the DatabaseManager that loads and caches    *)
(* them.  Buffers are sequences of bytes; offset o of the file is element  *)
(* o + 1 of the sequence.                                                  *)
(***************************************************************************)
EXTENDS Integers, Sequences, FiniteSets, TLC

VARIABLES
    data,         \* the memory-mapped file: a sequence of bytes
    target,       \* the key looked up (or the offset handed to Reader::parse)
    build,        \* "debug" (overflow checks on) or "release" (wrapping)
    pc,           \* position of the single-threaded reader scenario
    hdl,          \* the database handle's fields (loaded, idx_start, ...)
    sres,         \* what search_index returned
    res,          \* what the operation under test returned
    ghost,        \* how the input buffer was built (read by claims only)
    th,           \* DatabaseManager callers: position and locals of each
    databases,    \* DatabaseManager::databases, a map of name -> handle
    query_cache,  \* DatabaseManager::query_cache, a map of key -> result
    dbs_lock,     \* the RwLock around databases
    cache_lock,   \* the RwLock around query_cache
    files,        \* the database files on disk, by logical name
    cfg,          \* AppConfig: the configured database names
    budget,       \* calls that may still be started
    hist          \* history of the run (read by claims only)

fvars == <<data, target, build, pc, hdl, sres, res, ghost>>

mvars == <<th, databases, query_cache, dbs_lock, cache_lock, files, cfg, budget, hist>>

vars == <<data, target, build, pc, hdl, sres, res, ghost,
          th, databases, query_cache, dbs_lock, cache_lock, files, cfg, budget, hist>>

\* the manager is not part of the single-handle scenarios
MIdle ==
    /\ th = <<>>
    /\ databases = {}
    /\ query_cache = {}
    /\ dbs_lock = <<>>
    /\ cache_lock = <<>>
    /\ files = <<>>
    /\ cfg = <<>>
    /\ budget = 0
    /\ hist = <<>>

REDIRECT_MODE_1 == 1

REDIRECT_MODE_2 == 2

Panic == [kind |-> "panic"]

Diverge == [kind |-> "diverge"]

None == [kind |-> "none"]

(***************************************************************************)
(* Byte access.  A Rust slice index outside the buffer panics; the         *)
(* operators below are only applied after the bounds test of the caller.   *)
(***************************************************************************)
ByteAt(d, o) == d[o + 1]

InBounds(d, o, width) == o >= 0 /\ o + width <= Len(d)

bytes3_to_u32(d, o) ==
    ByteAt(d, o) + 256 * ByteAt(d, o + 1) + 65536 * ByteAt(d, o + 2)

(***************************************************************************)
(* Fixed-width unsigned integers.  A u32 is two and a u64 four 16-bit      *)
(* limbs, least significant first, so that the arithmetic on header        *)
(* fields keeps its width: every operation reports the carry or borrow     *)
(* out of the top limb, which is where the Rust build either panics        *)
(* (overflow checks on) or wraps.                                          *)
(***************************************************************************)
LIMB == 65536

from_le_bytes(d, o, n) ==
    [i \in 1..n |-> ByteAt(d, o + 2 * (i - 1)) + 256 * ByteAt(d, o + 2 * (i - 1) + 1)]

u32_from_le_bytes(d, o) == from_le_bytes(d, o, 2)

u64_from_le_bytes(d, o) == from_le_bytes(d, o, 4)

\* a small non-negative Int as an n-limb integer
BOf(x, n) ==
    [i \in 1..n |-> IF i = 1 THEN x % LIMB ELSE IF i = 2 THEN x \div LIMB ELSE 0]

\* the integer is below 2^31 and so is an Int of the model
BFits(a) == a[2] < 32768 /\ \A i \in 3..Len(a) : a[i] = 0

BToInt(a) == a[1] + LIMB * a[2]

BLess(a, b) ==
    \E i \in 1..Len(a) : a[i] < b[i] /\ \A j \in (i + 1)..Len(a) : a[j] = b[j]

BLeq(a, b) == a = b \/ BLess(a, b)

RECURSIVE BCarry(_, _, _)
BCarry(a, b, i) ==
    IF i = 0 THEN 0 ELSE (a[i] + b[i] + BCarry(a, b, i - 1)) \div LIMB

BAdd(a, b) ==
    [val |-> [i \in 1..Len(a) |-> (a[i] + b[i] + BCarry(a, b, i - 1)) % LIMB],
     over |-> BCarry(a, b, Len(a)) > 0]

RECURSIVE BBorrow(_, _, _)
BBorrow(a, b, i) ==
    IF i = 0 THEN 0
    ELSE IF a[i] - b[i] - BBorrow(a, b, i - 1) < 0 THEN 1 ELSE 0

BSub(a, b) ==
    [val |-> [i \in 1..Len(a) |-> (a[i] - b[i] - BBorrow(a, b, i - 1)) % LIMB],
     over |-> BBorrow(a, b, Len(a)) > 0]

RECURSIVE BMulCarry(_, _, _)
BMulCarry(a, k, i) ==
    IF i = 0 THEN 0 ELSE (a[i] * k + BMulCarry(a, k, i - 1)) \div LIMB

BMul(a, k) ==
    [val |-> [i \in 1..Len(a) |-> (a[i] * k + BMulCarry(a, k, i - 1)) % LIMB],
     over |-> BMulCarry(a, k, Len(a)) > 0]

RECURSIVE BDivRem(_, _, _)
BDivRem(a, k, i) ==
    IF i > Len(a) THEN 0 ELSE (BDivRem(a, k, i + 1) * LIMB + a[i]) % k

BDiv(a, k) ==
    [i \in 1..Len(a) |-> (BDivRem(a, k, i + 1) * LIMB + a[i]) \div k]

\* a[o .. o + width] lies inside the buffer (usize arithmetic, 64 bits)
BInBounds(d, a, width) == BFits(a) /\ BToInt(a) + width <= Len(d)

(***************************************************************************)
(* Reader (qqwry/mod.rs, zxipv6/mod.rs): cursor pos and the one-slot       *)
(* last_pos register.  Every operator returns [ok |-> FALSE] where the     *)
(* Rust code indexes outside the buffer (a panic).                         *)
(***************************************************************************)
Reader_new == [pos |-> 0, last_pos |-> 0]

seek_abs(rd, offset) == [pos |-> offset, last_pos |-> rd.pos]

seek_back(rd) == [pos |-> rd.last_pos, last_pos |-> rd.last_pos]

read_mode(d, rd) ==
    IF ~InBounds(d, rd.pos, 1)
    THEN [ok |-> FALSE]
    ELSE [ok |-> TRUE, val |-> ByteAt(d, rd.pos),
          rd |-> [pos |-> rd.pos + 1, last_pos |-> rd.pos]]

\* mutant: the offset is decoded but the cursor does not jump to it
read_offset_nojump(d, rd, follow) ==
    IF ~InBounds(d, rd.pos, 3)
    THEN [ok |-> FALSE]
    ELSE [ok |-> TRUE, val |-> bytes3_to_u32(d, rd.pos),
          rd |-> [pos |-> rd.pos + 3, last_pos |-> rd.pos]]

\* mutant: last_pos is left at the start of the offset field when following
read_offset_lastbefore(d, rd, follow) ==
    IF ~InBounds(d, rd.pos, 3)
    THEN [ok |-> FALSE]
    ELSE LET offset == bytes3_to_u32(d, rd.pos)
         IN  [ok |-> TRUE, val |-> offset,
              rd |-> IF follow
                     THEN [pos |-> offset, last_pos |-> rd.pos]
                     ELSE [pos |-> rd.pos + 3, last_pos |-> rd.pos]]

read_offset(d, rd, follow) ==
    IF ~InBounds(d, rd.pos, 3)
    THEN [ok |-> FALSE]
    ELSE LET offset == bytes3_to_u32(d, rd.pos)
         IN  [ok |-> TRUE, val |-> offset,
              rd |-> IF follow
                     THEN [pos |-> offset, last_pos |-> rd.pos + 3]
                     ELSE [pos |-> rd.pos + 3, last_pos |-> rd.pos]]

\* The scan of read_string: the first end >= start with end = len or a zero byte.
\* eof records that the scan stopped at the end of the buffer, with no terminator.
RECURSIVE StringEnd(_, _)
StringEnd(d, end) ==
    IF end < Len(d) /\ ByteAt(d, end) # 0 THEN StringEnd(d, end + 1) ELSE end

read_string(d, rd, advance) ==
    IF rd.pos > Len(d)
    THEN [ok |-> FALSE]
    ELSE LET end == StringEnd(d, rd.pos)
         IN  [ok |-> TRUE, val |-> SubSeq(d, rd.pos + 1, end),
              eof |-> end = Len(d),
              rd |-> IF advance
                     THEN [pos |-> end + 1, last_pos |-> rd.pos]
                     ELSE rd]

\* a read_area that reads the string at the offset also when it is 0
read_area_follow_zero(d, rd) ==
    LET m == read_mode(d, rd)
    IN  IF ~m.ok THEN [ok |-> FALSE]
        ELSE IF m.val = REDIRECT_MODE_1 \/ m.val = REDIRECT_MODE_2
        THEN LET o == read_offset(d, m.rd, TRUE)
             IN  IF ~o.ok THEN [ok |-> FALSE]
                 ELSE read_string(d, o.rd, FALSE)
        ELSE read_string(d, seek_back(m.rd), FALSE)

read_area(d, rd) ==
    LET m == read_mode(d, rd)
    IN  IF ~m.ok THEN [ok |-> FALSE]
        ELSE IF m.val = REDIRECT_MODE_1 \/ m.val = REDIRECT_MODE_2
        THEN LET o == read_offset(d, m.rd, TRUE)
             IN  IF ~o.ok THEN [ok |-> FALSE]
                 ELSE IF o.val = 0
                 THEN [ok |-> TRUE, val |-> <<>>, eof |-> FALSE, rd |-> o.rd]
                 ELSE read_string(d, o.rd, FALSE)
        ELSE read_string(d, seek_back(m.rd), FALSE)

parse_redirect_mode2(d, rd) ==
    LET o == read_offset(d, rd, TRUE)
    IN  IF ~o.ok THEN [ok |-> FALSE]
        ELSE LET s == read_string(d, o.rd, FALSE)
             IN  IF ~s.ok THEN [ok |-> FALSE]
                 ELSE [ok |-> TRUE, val |-> s.val, eof |-> s.eof,
                       rd |-> seek_back(s.rd)]

\* country, then area, once the cursor stands where the area begins
ParseTail(d, c) ==
    IF ~c.ok THEN Panic
    ELSE LET a == read_area(d, c.rd)
         IN  IF ~a.ok THEN Panic
             ELSE [kind |-> "ok", country |-> c.val, area |-> a.val,
                   eof |-> c.eof \/ a.eof]

\* parse(offset).  A mode-1 hop continues at the offset just read, and what
\* follows depends on that position alone; hops counts them, and more hops
\* than the buffer has bytes means a position repeated: the recursion of
\* the code never returns (Diverge).
RECURSIVE ParseFrom(_, _, _, _)
ParseFrom(d, rd, offset, hops) ==
    LET rd1 == IF offset # 0 THEN seek_abs(rd, offset) ELSE rd
        m == read_mode(d, rd1)
    IN  IF ~m.ok THEN Panic
        ELSE IF m.val = REDIRECT_MODE_1
        THEN LET o == read_offset(d, m.rd, TRUE)
             IN  IF ~o.ok THEN Panic
                 ELSE IF hops >= Len(d) THEN Diverge
                 ELSE ParseFrom(d, o.rd, 0, hops + 1)
        ELSE IF m.val = REDIRECT_MODE_2
        THEN ParseTail(d, parse_redirect_mode2(d, m.rd))
        ELSE ParseTail(d, read_string(d, seek_back(m.rd), TRUE))

parse(d, offset) == ParseFrom(d, Reader_new, offset, 0)

(***************************************************************************)
(* Text of a record: gbk_to_utf8 (encoding_rs GBK.decode, then trim) and   *)
(* the cleanup of lookup_ipv4.  A decoded string is a sequence of code     *)
(* points; a two-byte GBK character is the code point 256 * lead + trail.  *)
(***************************************************************************)
REPLACEMENT == 65533

WhiteSpace == {9, 10, 11, 12, 13, 32}

CZ88 == <<67, 90, 56, 56, 46, 78, 69, 84>>

RECURSIVE GBKDecode(_)
GBKDecode(b) ==
    IF b = <<>> THEN <<>>
    ELSE IF b[1] < 128 THEN <<b[1]>> \o GBKDecode(Tail(b))
    ELSE IF /\ b[1] \in 129..254
            /\ Len(b) >= 2
            /\ b[2] \in (64..254) \ {127}
         THEN <<256 * b[1] + b[2]>> \o GBKDecode(Tail(Tail(b)))
         ELSE <<REPLACEMENT>> \o GBKDecode(Tail(b))

RECURSIVE TrimStart(_)
TrimStart(t) ==
    IF t # <<>> /\ t[1] \in WhiteSpace THEN TrimStart(Tail(t)) ELSE t

RECURSIVE TrimEnd(_)
TrimEnd(t) ==
    IF t # <<>> /\ t[Len(t)] \in WhiteSpace
    THEN TrimEnd(SubSeq(t, 1, Len(t) - 1)) ELSE t

Trim(t) == TrimEnd(TrimStart(t))

gbk_to_utf8(b) == Trim(GBKDecode(b))

\* str::replace(pat, ""): every non-overlapping match, left to right
RECURSIVE Remove(_, _)
Remove(t, pat) ==
    IF Len(t) < Len(pat) THEN t
    ELSE IF SubSeq(t, 1, Len(pat)) = pat
    THEN Remove(SubSeq(t, Len(pat) + 1, Len(t)), pat)
    ELSE <<t[1]>> \o Remove(Tail(t), pat)

\* mutant: the trademark token is left in
Clean_keep(t) == Trim(t)

Clean(t) == Trim(Remove(t, CZ88))

\* if !s.is_empty() { Some(s) } else { None }: an Option is a sequence of
\* no element or one
Opt(t) == IF t # <<>> THEN <<t>> ELSE <<>>

(***************************************************************************)
(* QQwryDatabase: load_from_file, search_index, lookup_ipv4.               *)
(***************************************************************************)
IP_LEN == 4

ENTRY_LEN == 7

QQwryDatabase_new == [kind |-> "qqwry", loaded |-> FALSE, mmap |-> FALSE]

\* (idx_end + 7) as usize: the u32 sum panics on overflow when the build
\* checks overflow and wraps otherwise
QQwryLoadCheck(d, idx_start, idx_end, b) ==
    LET sum == BAdd(idx_end, BOf(ENTRY_LEN, 2))
    IN  IF ~BLess(idx_start, idx_end) THEN "err"
        ELSE IF sum.over /\ b = "debug" THEN "panic"
        ELSE IF ~BInBounds(d, sum.val, 0) THEN "err"
        ELSE "ok"

QQwry_load_from_file(d, b) ==
    IF Len(d) < 8 THEN [kind |-> "err"]
    ELSE LET idx_start == u32_from_le_bytes(d, 0)
             idx_end == u32_from_le_bytes(d, 4)
             c == QQwryLoadCheck(d, idx_start, idx_end, b)
         IN  IF c = "ok"
             THEN [kind |-> "ok",
                   h |-> [kind |-> "qqwry", loaded |-> TRUE, mmap |-> TRUE,
                          idx_start |-> idx_start, idx_end |-> idx_end]]
             ELSE [kind |-> c]

\* mutant: the midpoint is not rounded down to a whole entry
Midpoint_unaligned(l, r, entry_len) ==
    BAdd(BDiv(BSub(r, l).val, 2), l).val

\* mid = (r - l) / entry_len / 2 * entry_len + l
Midpoint(l, r, entry_len) ==
    BAdd(BMul(BDiv(BDiv(BSub(r, l).val, entry_len), 2), entry_len).val, l).val

\* mutant: the right boundary is taken only for a strictly greater target
OffsetPos_strict(ip, r_ip, r, mid) == IF BLess(r_ip, ip) THEN r ELSE mid

\* let offset_pos = if ip >= r_ip { r } else { mid }
OffsetPos(ip, r_ip, r, mid) == IF BLeq(r_ip, ip) THEN r ELSE mid

\* the payload slice mmap[pos + ip_len .. pos + entry_len]
Payload(d, pos, ip_len, entry_len) ==
    IF ~BInBounds(d, pos, entry_len) THEN Panic
    ELSE [kind |-> "ok", val |-> bytes3_to_u32(d, BToInt(pos) + ip_len),
          pos |-> BToInt(pos)]

\* the byte offsets a read of `width` bytes at `pos` touches
Span(pos, width) == {BToInt(pos) + k : k \in 0..(width - 1)}

\* the result of the search with the offsets the loop has read
WithReads(p, reads) ==
    IF p.kind # "ok" THEN p
    ELSE [kind |-> "ok", val |-> p.val, pos |-> p.pos,
          reads |-> reads \cup {p.pos + k : k \in IP_LEN..(ENTRY_LEN - 1)}]

\* The loop of search_index.  r never grows and l never shrinks; a round
\* that changes neither repeats for ever (Diverge).
RECURSIVE SearchLoop(_, _, _, _, _)
SearchLoop(d, l, r, ip, reads) ==
    LET mid == Midpoint(l, r, ENTRY_LEN)
    IN  IF ~BInBounds(d, mid, 4) THEN Panic
        ELSE LET mid_ip == u32_from_le_bytes(d, BToInt(mid))
                 seen == reads \cup Span(mid, 4)
             IN  IF BSub(r, l).val = BOf(ENTRY_LEN, 2)
                 THEN IF ~BInBounds(d, r, 4) THEN Panic
                      ELSE WithReads(Payload(d, OffsetPos(ip, u32_from_le_bytes(d, BToInt(r)), r, mid),
                                             IP_LEN, ENTRY_LEN),
                                     seen \cup Span(r, 4))
                 ELSE IF BLess(ip, mid_ip)
                 THEN IF mid = r THEN Diverge ELSE SearchLoop(d, l, mid, ip, seen)
                 ELSE IF BLess(mid_ip, ip)
                 THEN IF mid = l THEN Diverge ELSE SearchLoop(d, mid, r, ip, seen)
                 ELSE WithReads(Payload(d, mid, IP_LEN, ENTRY_LEN), seen)

QQwry_search_index(d, h, ip) ==
    IF ~h.mmap THEN [kind |-> "err"]
    ELSE SearchLoop(d, h.idx_start, h.idx_end, ip, {})

\* mutant: the record is parsed at its offset, the end IP not skipped
QQwry_lookup_ipv4_noskip(d, h, ip) ==
    IF ~h.mmap THEN [kind |-> "notfound"]
    ELSE LET s == QQwry_search_index(d, h, ip)
         IN  IF s.kind # "ok" THEN s
             ELSE LET raw == parse(d, s.val)
                  IN  IF raw.kind # "ok" THEN raw
                      ELSE [kind |-> "some", ip |-> ip,
                            country |-> Opt(Clean(gbk_to_utf8(raw.country))),
                            isp |-> Opt(Clean(gbk_to_utf8(raw.area))),
                            country_code |-> "CN", raw |-> raw]

QQwry_lookup_ipv4(d, h, ip) ==
    IF ~h.mmap THEN [kind |-> "notfound"]
    ELSE LET s == QQwry_search_index(d, h, ip)
         IN  IF s.kind # "ok" THEN s
             ELSE LET raw == parse(d, s.val + 4)
                  IN  IF raw.kind # "ok" THEN raw
                      ELSE [kind |-> "some",
                            ip |-> ip,
                            country |-> Opt(Clean(gbk_to_utf8(raw.country))),
                            isp |-> Opt(Clean(gbk_to_utf8(raw.area))),
                            country_code |-> "CN",
                            raw |-> raw]

(***************************************************************************)
(* ZXIPv6Database: check_file and load_from_file.                          *)
(***************************************************************************)
IPDB == <<73, 80, 68, 66>>

ZX_STRIDE == 11

ZXIPv6Database_new == [kind |-> "zxipv6", loaded |-> FALSE, mmap |-> FALSE]

\* check_file: "ok", "invalid", or "panic" where start + counts * 11
\* overflows u64 in a build that checks overflow
ZX_check_file(d, b) ==
    IF Len(d) < 4 THEN "invalid"
    ELSE IF SubSeq(d, 1, 4) # IPDB THEN "invalid"
    ELSE IF Len(d) < 24 THEN "invalid"
    ELSE LET start == u64_from_le_bytes(d, 16)
             counts == u64_from_le_bytes(d, 8)
             prod == BMul(counts, ZX_STRIDE)
             end == BAdd(start, prod.val)
         IN  IF (prod.over \/ end.over) /\ b = "debug" THEN "panic"
             ELSE IF ~BLess(start, end.val) \/ ~BInBounds(d, end.val, 0)
             THEN "invalid"
             ELSE "ok"

ZX_load_from_file(d, b) ==
    LET c == ZX_check_file(d, b)
    IN  IF c = "invalid" THEN [kind |-> "err"]
        ELSE IF c = "panic" THEN Panic
        ELSE [kind |-> "ok",
              h |-> [kind |-> "zxipv6", loaded |-> TRUE, mmap |-> TRUE,
                     off_len |-> ByteAt(d, 6), ip_len |-> ByteAt(d, 7),
                     idx_start |-> u64_from_le_bytes(d, 16),
                     idx_end |-> BAdd(u64_from_le_bytes(d, 16),
                                      BMul(u64_from_le_bytes(d, 8), ZX_STRIDE).val).val]]

\* (self.off_len + self.ip_len) as u64: the sum is taken in u8
ZX_entry_len(h, b) ==
    LET sum == h.off_len + h.ip_len
    IN  IF sum > 255 /\ b = "debug" THEN Panic
        ELSE [kind |-> "ok", val |-> sum % 256]

\* bytes3_to_u32(&mmap[pos + ip_len .. pos + entry_len]): the slice must lie
\* in the buffer and hold the three bytes that are read
ZX_Payload(d, pos, ip_len, entry_len) ==
    IF \/ ~BInBounds(d, pos, entry_len)
       \/ entry_len < ip_len + 3
    THEN Panic
    ELSE [kind |-> "ok", val |-> bytes3_to_u32(d, BToInt(pos) + ip_len),
          pos |-> BToInt(pos)]

\* The loop of search_index, with 8-byte keys whatever ip_len says.
RECURSIVE ZX_SearchLoop(_, _, _, _, _, _)
ZX_SearchLoop(d, l, r, ip, ip_len, entry_len) ==
    LET mid == Midpoint(l, r, entry_len)
    IN  IF ~BInBounds(d, mid, 8) THEN Panic
        ELSE LET mid_ip == u64_from_le_bytes(d, BToInt(mid))
             IN  IF BSub(r, l).val = BOf(entry_len, 4)
                 THEN IF ~BInBounds(d, r, 8) THEN Panic
                      ELSE ZX_Payload(d, OffsetPos(ip, u64_from_le_bytes(d, BToInt(r)), r, mid),
                                      ip_len, entry_len)
                 ELSE IF BLess(ip, mid_ip)
                 THEN IF mid = r THEN Diverge
                      ELSE ZX_SearchLoop(d, l, mid, ip, ip_len, entry_len)
                 ELSE IF BLess(mid_ip, ip)
                 THEN IF mid = l THEN Diverge
                      ELSE ZX_SearchLoop(d, mid, r, ip, ip_len, entry_len)
                 ELSE ZX_Payload(d, mid, ip_len, entry_len)

ZX_search_index(d, h, ip, b) ==
    IF ~h.mmap THEN [kind |-> "err"]
    ELSE LET entry_len == ZX_entry_len(h, b)
         IN  IF entry_len.kind # "ok" THEN entry_len
             ELSE IF entry_len.val = 0 THEN Panic
             ELSE ZX_SearchLoop(d, h.idx_start, h.idx_end, ip, h.ip_len, entry_len.val)

\* u64::from_be_bytes of eight octets, as 16-bit limbs, least limb first
u64_from_be_bytes(o) == [i \in 1..4 |-> o[9 - 2 * i] * 256 + o[10 - 2 * i]]

\* u64::to_be_bytes
u64_to_be_bytes(a) ==
    [k \in 1..8 |-> LET limb == a[4 - (k - 1) \div 2]
                    IN  IF k % 2 = 1 THEN limb \div 256 ELSE limb % 256]

Continuation(s, i, lo, hi) == i <= Len(s) /\ s[i] >= lo /\ s[i] <= hi

\* one step of String::from_utf8_lossy at index i: the code point and the
\* number of bytes taken; an ill-formed sequence yields U+FFFD for its
\* maximal well-formed prefix
Utf8Step(s, i) ==
    LET b == s[i]
        lo == IF b = 224 THEN 160 ELSE IF b = 240 THEN 144 ELSE 128
        hi == IF b = 237 THEN 159 ELSE IF b = 244 THEN 143 ELSE 191
        bad(n) == [cp |-> REPLACEMENT, n |-> n]
    IN  IF b < 128 THEN [cp |-> b, n |-> 1]
        ELSE IF b >= 194 /\ b <= 223
        THEN IF Continuation(s, i + 1, 128, 191)
             THEN [cp |-> (b - 192) * 64 + (s[i + 1] - 128), n |-> 2]
             ELSE bad(1)
        ELSE IF b >= 224 /\ b <= 239
        THEN IF ~Continuation(s, i + 1, lo, hi) THEN bad(1)
             ELSE IF ~Continuation(s, i + 2, 128, 191) THEN bad(2)
             ELSE [cp |-> (b - 224) * 4096 + (s[i + 1] - 128) * 64 + (s[i + 2] - 128),
                   n |-> 3]
        ELSE IF b >= 240 /\ b <= 244
        THEN IF ~Continuation(s, i + 1, lo, hi) THEN bad(1)
             ELSE IF ~Continuation(s, i + 2, 128, 191) THEN bad(2)
             ELSE IF ~Continuation(s, i + 3, 128, 191) THEN bad(3)
             ELSE [cp |-> (b - 240) * 262144 + (s[i + 1] - 128) * 4096
                              + (s[i + 2] - 128) * 64 + (s[i + 3] - 128),
                   n |-> 4]
        ELSE bad(1)

RECURSIVE Utf8From(_, _)
Utf8From(s, i) ==
    IF i > Len(s) THEN <<>>
    ELSE LET st == Utf8Step(s, i) IN <<st.cp>> \o Utf8From(s, i + st.n)

from_utf8_lossy(s) == Utf8From(s, 1)

\* lookup_ipv6: search_index, Reader::parse at the offset itself, lossy
\* UTF-8, cleanup; the address returned is the key with 64 zero bits
ZX_lookup_ipv6(d, h, ip, b) ==
    IF ~h.mmap THEN [kind |-> "notfound"]
    ELSE LET s == ZX_search_index(d, h, ip, b)
         IN  IF s.kind # "ok" THEN s
             ELSE LET raw == parse(d, s.val)
                  IN  IF raw.kind # "ok" THEN raw
                      ELSE [kind |-> "some",
                            ip |-> u64_to_be_bytes(ip) \o [k \in 1..8 |-> 0],
                            country |-> Opt(Clean(from_utf8_lossy(raw.country))),
                            isp |-> Opt(Clean(from_utf8_lossy(raw.area))),
                            country_code |-> <<>>,
                            raw |-> raw]

\* a lookup keyed by the low half of the address
ZX_lookup_ip_low(d, h, addr, b) ==
    IF Len(addr) = 4 THEN [kind |-> "notfound"]
    ELSE ZX_lookup_ipv6(d, h, u64_from_be_bytes(SubSeq(addr, 9, 16)), b)

\* Database::lookup_ip of ZXIPv6Database: an address is the sequence of its
\* octets, 4 for IpAddr::V4 and 16 for IpAddr::V6
ZX_lookup_ip(d, h, addr, b) ==
    IF Len(addr) = 4 THEN [kind |-> "notfound"]
    ELSE ZX_lookup_ipv6(d, h, u64_from_be_bytes(SubSeq(addr, 1, 8)), b)

(***************************************************************************)
(* IPIPDatabase: parse_header, parse_translation_tables, load_from_file,   *)
(* parse_record, lookup_ip_internal_v4.                                    *)
(***************************************************************************)
IPIP_RECORD == 16

IPIPDatabase_new ==
    [kind |-> "ipip", loaded |-> FALSE, mmap |-> FALSE, file_size |-> 0,
     header |-> None, tables |-> None]

IPIP_parse_header(d) ==
    IF Len(d) < IPIP_RECORD THEN [kind |-> "err"]
    ELSE [kind |-> "ok",
          version |-> u32_from_le_bytes(d, 0),
          created_time |-> u32_from_le_bytes(d, 4),
          index_start |-> u32_from_le_bytes(d, 8),
          index_end |-> u32_from_le_bytes(d, 12),
          support_ipv6 |-> (Len(d) > 16 /\ ByteAt(d, 16) = 1)]

\* the keyword heuristic of parse_translation_tables
RECURSIVE Contains(_, _)
Contains(t, pat) ==
    /\ Len(t) >= Len(pat)
    /\ (SubSeq(t, 1, Len(pat)) = pat \/ Contains(Tail(t), pat))

KwCountry ==
    {<<229, 155, 189, 229, 174, 182>>, <<67, 104, 105, 110, 97>>,
     <<85, 110, 105, 116, 101, 100, 32, 83, 116, 97, 116, 101, 115>>}

KwRegion ==
    {<<231, 156, 129>>, <<229, 183, 158>>, <<80, 114, 111, 118, 105, 110, 99, 101>>}

KwCity == {<<229, 184, 130>>, <<67, 105, 116, 121>>}

KwIsp ==
    {<<231, 148, 181, 228, 191, 161>>, <<232, 191, 144, 232, 144, 165, 229, 149, 134>>,
     <<73, 83, 80>>}

Category(line) ==
    IF \E k \in KwCountry : Contains(line, k) THEN "countries"
    ELSE IF \E k \in KwRegion : Contains(line, k) THEN "regions"
    ELSE IF \E k \in KwCity : Contains(line, k) THEN "cities"
    ELSE IF \E k \in KwIsp : Contains(line, k) THEN "isps"
    ELSE "none"

\* text.split('\0')
RECURSIVE SplitNul(_, _)
SplitNul(t, cur) ==
    IF t = <<>> THEN <<cur>>
    ELSE IF t[1] = 0 THEN <<cur>> \o SplitNul(Tail(t), <<>>)
    ELSE SplitNul(Tail(t), Append(cur, t[1]))

SelectCat(lines, cat) == SelectSeq(lines, LAMBDA l : l # <<>> /\ Category(l) = cat)

EmptyTables ==
    [kind |-> "tables", countries |-> <<>>, regions |-> <<>>, cities |-> <<>>, isps |-> <<>>]

\* text_start = index_end + ((index_end - index_start) / 16 * 16) as u32
IPIP_parse_translation_tables(d, hd, b) ==
    LET diff == BSub(hd.index_end, hd.index_start)
        span == BMul(BDiv(diff.val, IPIP_RECORD), IPIP_RECORD).val
        text_start == BAdd(hd.index_end, span)
    IN  IF (diff.over \/ text_start.over) /\ b = "debug" THEN Panic
        ELSE IF BFits(text_start.val) /\ BToInt(text_start.val) < Len(d)
        THEN LET lines == SplitNul(SubSeq(d, BToInt(text_start.val) + 1, Len(d)), <<>>)
             IN  [kind |-> "ok",
                  tables |-> [kind |-> "tables",
                              countries |-> SelectCat(lines, "countries"),
                              regions |-> SelectCat(lines, "regions"),
                              cities |-> SelectCat(lines, "cities"),
                              isps |-> SelectCat(lines, "isps")]]
        ELSE [kind |-> "ok", tables |-> EmptyTables]

\* file_size and mmap are stored before the header is validated
IPIP_load_from_file(d, b) ==
    LET hd == IPIP_parse_header(d)
        mapped == [kind |-> "ipip", loaded |-> FALSE, mmap |-> TRUE,
                   file_size |-> Len(d), header |-> None, tables |-> None]
    IN  IF hd.kind = "err" THEN [kind |-> "err", h |-> mapped]
        ELSE LET t == IPIP_parse_translation_tables(d, hd, b)
             IN  IF t.kind = "panic" THEN Panic
                 ELSE [kind |-> "ok",
                       h |-> [kind |-> "ipip", loaded |-> TRUE, mmap |-> TRUE,
                              file_size |-> Len(d), header |-> hd,
                              tables |-> t.tables]]

u16_from_le_bytes(d, o) == ByteAt(d, o) + 256 * ByteAt(d, o + 1)

IPIP_parse_record(d, h, offset) ==
    IF ~h.mmap THEN [kind |-> "err"]
    ELSE IF ~BInBounds(d, offset, IPIP_RECORD) THEN [kind |-> "err"]
    ELSE LET o == BToInt(offset)
         IN  [kind |-> "ok",
              start_ip |-> u32_from_le_bytes(d, o),
              end_ip |-> u32_from_le_bytes(d, o + 4),
              country_id |-> u16_from_le_bytes(d, o + 8),
              region_id |-> u16_from_le_bytes(d, o + 10),
              city_id |-> u16_from_le_bytes(d, o + 12),
              isp_id |-> u16_from_le_bytes(d, o + 14)]

Unknown == <<85, 110, 107, 110, 111, 119, 110>>

translate_id(h, id, table) ==
    IF h.tables.kind = "none" THEN Unknown
    ELSE IF id < Len(h.tables[table]) THEN h.tables[table][id + 1] ELSE Unknown

\* mutant: the probe position is rounded down to a whole record
IPIP_Mid_aligned(low, high, index_start) ==
    LET sum == BAdd(low, high)
        half == BDiv(sum.val, 2)
        rel == BSub(half, index_start).val
    IN  [val |-> BAdd(BMul(BDiv(rel, 16), 16).val, index_start).val, over |-> sum.over]

\* let mid = (low + high) / 2
IPIP_Mid(low, high, index_start) ==
    LET sum == BAdd(low, high)
    IN  [val |-> BDiv(sum.val, 2), over |-> sum.over]

\* The while loop of lookup_ip_internal_v4.  seen holds the (low, high)
\* pairs already visited: a pair that comes back repeats for ever.
RECURSIVE IPIPLoop(_, _, _, _, _, _, _)
IPIPLoop(d, h, low, high, ip, b, seen) ==
    IF BLess(high, low) THEN [kind |-> "notfound"]
    ELSE IF <<low, high>> \in seen THEN Diverge
    ELSE LET m == IPIP_Mid(low, high, h.header.index_start)
             mid == m.val
             seen2 == seen \cup {<<low, high>>}
         IN  IF m.over /\ b = "debug" THEN Panic
             ELSE IF ~(BFits(mid) /\ BToInt(mid) + IPIP_RECORD <= h.file_size)
             THEN [kind |-> "notfound"]
             ELSE LET rec == IPIP_parse_record(d, h, mid)
                  IN  IF rec.kind = "err" THEN rec
                      ELSE IF BLeq(rec.start_ip, ip) /\ BLeq(ip, rec.end_ip)
                      THEN [kind |-> "some", ip |-> ip, at |-> BToInt(mid),
                            rec |-> rec,
                            country |-> translate_id(h, rec.country_id, "countries"),
                            region |-> translate_id(h, rec.region_id, "regions"),
                            city |-> translate_id(h, rec.city_id, "cities"),
                            isp |-> translate_id(h, rec.isp_id, "isps")]
                      ELSE IF BLess(ip, rec.start_ip)
                      THEN IF mid = BOf(0, 2) THEN [kind |-> "notfound"]
                           ELSE LET nh == BSub(mid, BOf(IPIP_RECORD, 2))
                                IN  IF nh.over /\ b = "debug" THEN Panic
                                    ELSE IPIPLoop(d, h, low, nh.val, ip, b, seen2)
                      ELSE LET nl == BAdd(mid, BOf(IPIP_RECORD, 2))
                           IN  IF nl.over /\ b = "debug" THEN Panic
                               ELSE IPIPLoop(d, h, nl.val, high, ip, b, seen2)

IPIP_lookup_ip_internal_v4(d, h, ip, b) ==
    IF h.header.kind = "none" THEN [kind |-> "notfound"]
    ELSE IPIPLoop(d, h, h.header.index_start, h.header.index_end, ip, b, {})

(***************************************************************************)
(* Reader scenario: Reader::parse applied to an arbitrary small buffer at  *)
(* an arbitrary start offset.                                              *)
(***************************************************************************)
RLen == 7

MaxOff == 1

RBytes == {0, 1, 2, 4}

InitR ==
    /\ data \in [1..RLen -> RBytes]
    /\ target \in 0..MaxOff
    /\ build = "release"
    /\ pc = "start"
    /\ hdl = None
    /\ sres = None
    /\ res = None
    /\ ghost = None
    /\ MIdle

ReaderParse ==
    /\ pc = "start"
    /\ res' = parse(data, target)
    /\ pc' = "parsed"
    /\ UNCHANGED <<data, target, build, hdl, sres, ghost>>
    /\ UNCHANGED mvars

\* read_area with the cursor at the start offset
ReadArea ==
    /\ pc = "start"
    /\ res' = read_area(data, seek_abs(Reader_new, target))
    /\ pc' = "area"
    /\ UNCHANGED <<data, target, build, hdl, sres, ghost>>
    /\ UNCHANGED mvars

NextR == ReaderParse \/ ReadArea

SpecR == InitR /\ [][NextR]_vars

(***************************************************************************)
(* Building input files.  Integers are written little-endian.              *)
(***************************************************************************)
RECURSIVE EncLimbs(_)
EncLimbs(a) ==
    IF a = <<>> THEN <<>>
    ELSE <<a[1] % 256, a[1] \div 256>> \o EncLimbs(Tail(a))

Enc24(x) == <<x % 256, (x \div 256) % 256, x \div 65536>>

Zeros(n) == [i \in 1..n |-> 0]

RECURSIVE Concat(_)
Concat(ss) == IF ss = <<>> THEN <<>> ELSE ss[1] \o Concat(Tail(ss))

\* a QQwry index: 7-byte entries, a 4-byte key and a 3-byte record offset
QQwryIndex(keys, pays) ==
    Concat([i \in 1..Len(keys) |-> EncLimbs(keys[i]) \o Enc24(pays[i])])

\* header, padding up to idx_start, the index, then the record area
QQwryFile(idx_start, keys, pays, records) ==
    EncLimbs(BOf(idx_start, 2))
        \o EncLimbs(BOf(idx_start + ENTRY_LEN * (Len(keys) - 1), 2))
        \o Zeros(idx_start - 8)
        \o QQwryIndex(keys, pays)
        \o records

(***************************************************************************)
(* QQwry scenarios: a file is loaded, then one address is looked up.       *)
(* InitIdx draws index regions of 2..MaxEntries entries (sorted or not);   *)
(* InitQ draws the payload offsets and the record area of a two-entry file.*)
(***************************************************************************)
MaxEntries == 4

Keys == {<<0, 0>>, <<1, 0>>, <<0, 1>>, <<65535, 65535>>}

Targets == Keys \cup {<<2, 0>>, <<65535, 0>>}

IdxStarts == {8, 10}

Builds == {"debug", "release"}

InitIdx ==
    /\ \E n \in 2..MaxEntries : \E keys \in [1..n -> Keys] : \E st \in IdxStarts :
          /\ ghost = [kind |-> "idx", keys |-> keys, pays |-> [i \in 1..n |-> 100 + i],
                      idx_start |-> st]
          /\ data = QQwryFile(st, keys, [i \in 1..n |-> 100 + i], <<>>)
    /\ target \in Targets
    /\ build = "release"
    /\ pc = "start"
    /\ hdl = QQwryDatabase_new
    /\ sres = None
    /\ res = None
    /\ MIdle

QTail == 4

QBytes == {0, 1, 2, 27, 65}

QPayloads == {22, 24, 16777215}

InitQ ==
    /\ \E p \in QPayloads : \E tail \in [1..QTail -> QBytes] :
          /\ ghost = [kind |-> "q", keys |-> <<(<<0, 0>>), (<<16, 0>>)>>,
                      pays |-> <<p, 22>>, idx_start |-> 8]
          /\ data = QQwryFile(8, <<(<<0, 0>>), (<<16, 0>>)>>, <<p, 22>>,
                              Zeros(4) \o tail)
    /\ target \in {<<0, 0>>, <<15, 0>>, <<16, 0>>, <<17, 0>>}
    /\ build \in Builds
    /\ pc = "start"
    /\ hdl = QQwryDatabase_new
    /\ sres = None
    /\ res = None
    /\ MIdle

\* load_from_file: the handle is written only when the header is accepted
QQwryLoad ==
    /\ pc = "start"
    /\ hdl.kind = "qqwry"
    /\ LET r == QQwry_load_from_file(data, build)
       IN  /\ hdl' = IF r.kind = "ok" THEN r.h ELSE hdl
           /\ res' = [kind |-> r.kind]
           /\ pc' = IF r.kind = "ok" THEN "loaded" ELSE "rejected"
    /\ UNCHANGED <<data, target, build, sres, ghost>>
    /\ UNCHANGED mvars

\* lookup_ip(IpAddr::V4): search_index, Reader::parse, text cleanup
QQwryLookup ==
    /\ pc = "loaded"
    /\ hdl.kind = "qqwry"
    /\ sres' = QQwry_search_index(data, hdl, target)
    /\ res' = QQwry_lookup_ipv4(data, hdl, target)
    /\ pc' = "done"
    /\ UNCHANGED <<data, target, build, hdl, ghost>>
    /\ UNCHANGED mvars

NextA == QQwryLoad \/ QQwryLookup

SpecIdx == InitIdx /\ [][NextA]_vars

SpecQ == InitQ /\ [][NextA]_vars

(***************************************************************************)
(* Round-trip scenarios: a country and an area, each put together from     *)
(* at most MaxPieces pieces of text, are encoded as GBK into the record    *)
(* of the first of two index entries; the file is loaded and an address    *)
(* of that entry's range is looked up.                                     *)
(***************************************************************************)
MaxPieces == 2

\* nothing, "A", a space, the token, a two-byte character, the byte 0x02
Pieces == {<<>>, <<65>>, <<32>>, CZ88, <<45502>>, <<2>>}

RECURSIVE GBKEncode(_)
GBKEncode(t) ==
    IF t = <<>> THEN <<>>
    ELSE (IF t[1] < 128 THEN <<t[1]>> ELSE <<t[1] \div 256, t[1] % 256>>)
             \o GBKEncode(Tail(t))

Texts == {Concat(ps) : ps \in [1..MaxPieces -> Pieces]}

\* 4-byte end IP, country, NUL, area, NUL
QQwryRecord(end_ip, country, area) ==
    EncLimbs(end_ip) \o GBKEncode(country) \o <<0>> \o GBKEncode(area) \o <<0>>

InitRT ==
    /\ \E c \in Texts : \E a \in Texts :
          /\ ghost = [kind |-> "rt", country |-> c, area |-> a]
          /\ data = QQwryFile(8, <<(<<0, 0>>), (<<16, 0>>)>>, <<22, 22>>,
                              QQwryRecord(<<15, 0>>, c, a))
    /\ target \in {<<0, 0>>, <<15, 0>>}
    /\ build = "release"
    /\ pc = "start"
    /\ hdl = QQwryDatabase_new
    /\ sres = None
    /\ res = None
    /\ MIdle

SpecRT == InitRT /\ [][NextA]_vars

(***************************************************************************)
(* End-to-end scenarios: a header with idx_start = 8 and idx_end = 15, an  *)
(* index entry at offset 8 that points at X, and at X a record with or     *)
(* without the 4-byte end IP in front.  Either the record follows the      *)
(* entry at once (X = 15), or a second entry fills the slot at offset 15   *)
(* and the record follows it (X = 22).                                     *)
(***************************************************************************)
\* lookup_ip: u32::from_be_bytes(ipv4.octets())
ipv4_to_u32(octets) ==
    <<256 * octets[3] + octets[4], 256 * octets[1] + octets[2]>>

Localhost == <<127, 0, 0, 1>>

\* "本地", "回环" as GBK characters, an empty text, and " A"
E2ETexts == {<<45502, 46552>>, <<48088, 48055>>, <<>>, <<32, 65>>}

\* the key as the bytes 7F 00 00 01 and as the bytes 01 00 00 7F
E2EKeys == {<<127, 256>>, <<1, 32512>>}

\* keys of the slot at offset 15: below, equal to and above 127.0.0.1
E2ESlotKeys == {<<0, 0>>, <<1, 32512>>, <<65535, 32767>>}

E2ESlots(x) ==
    {<<>>} \cup {EncLimbs(k) \o Enc24(p) : k \in E2ESlotKeys, p \in {x, 8}}

E2EFile(key, slot, record) ==
    EncLimbs(<<8, 0>>) \o EncLimbs(<<15, 0>>)
        \o EncLimbs(key) \o Enc24(15 + Len(slot)) \o slot \o record

InitE2E ==
    /\ \E c \in E2ETexts : \E a \in E2ETexts : \E key \in E2EKeys :
       \E slot \in E2ESlots(22) : \E end_ip \in {<<>>, <<65535, 32767>>} :
          /\ ghost = [kind |-> "e2e", country |-> c, area |-> a,
                      X |-> 15 + Len(slot), end_ip |-> end_ip # <<>>]
          /\ data = E2EFile(key, slot,
                            EncLimbs(end_ip) \o GBKEncode(c) \o <<0>>
                                \o GBKEncode(a) \o <<0>>)
    /\ target = ipv4_to_u32(Localhost)
    /\ build \in Builds
    /\ pc = "start"
    /\ hdl = QQwryDatabase_new
    /\ sres = None
    /\ res = None
    /\ MIdle

SpecE2E == InitE2E /\ [][NextA]_vars

(***************************************************************************)
(* ZX index scenarios: a header that declares the field widths and count   *)
(* entries at offset 24, the entries laid out with the stride the widths   *)
(* give, padding up to the index end the header implies, and a tail.       *)
(***************************************************************************)
MaxZXEntries == 3

ZXKeys == {<<0, 0, 0, 0>>, <<5, 0, 0, 0>>, <<0, 0, 0, 1>>}

ZXTargets == ZXKeys \cup {<<7, 0, 0, 0>>, <<65535, 65535, 65535, 65535>>}

\* payload-offset widths; the key width is 8
ZXOffLens == {3, 4}

\* nothing after the index, an entry with the greatest key, zero bytes
ZXTails == {<<>>, EncLimbs(<<65535, 65535, 65535, 65535>>) \o Enc24(99), Zeros(11)}

ZXIndex(keys, pays, off_len) ==
    Concat([i \in 1..Len(keys) |->
               EncLimbs(keys[i]) \o Enc24(pays[i]) \o Zeros(off_len - 3)])

ZXFile(keys, pays, off_len, tail) ==
    IPDB \o <<0, 0, off_len, 8>> \o EncLimbs(BOf(Len(keys), 4))
         \o EncLimbs(BOf(24, 4)) \o ZXIndex(keys, pays, off_len) \o tail

InitZ ==
    /\ \E n \in 1..MaxZXEntries : \E keys \in [1..n -> ZXKeys] :
       \E w \in ZXOffLens : \E tail \in ZXTails :
          /\ \A i \in 1..(n - 1) : BLess(keys[i], keys[i + 1])
          /\ ghost = [kind |-> "zx", keys |-> keys, pays |-> [i \in 1..n |-> 100 + i],
                      off_len |-> w, tail |-> Len(tail)]
          /\ data = ZXFile(keys, [i \in 1..n |-> 100 + i], w, tail)
    /\ target \in ZXTargets
    /\ build \in Builds
    /\ pc = "start"
    /\ hdl = ZXIPv6Database_new
    /\ sres = None
    /\ res = None
    /\ MIdle

ZXSearchIndex ==
    /\ pc = "loaded"
    /\ hdl.kind = "zxipv6"
    /\ sres' = ZX_search_index(data, hdl, target, build)
    /\ res' = [kind |-> sres'.kind]
    /\ pc' = "done"
    /\ UNCHANGED <<data, target, build, hdl, ghost>>
    /\ UNCHANGED mvars

(***************************************************************************)
(* Load scenarios: one file of each format, with a header that declares    *)
(* an index end before, at or behind the end of the file, is loaded.       *)
(***************************************************************************)
LoadLens == {16, 24, 30, 40}

Take(s, n) == SubSeq(s, 1, IF n < Len(s) THEN n ELSE Len(s))

QQwryEnds == {<<15, 0>>, <<22, 0>>, <<100, 0>>, <<65529, 65535>>, <<65535, 65535>>}

\* 1 and 2 entries, 100 entries, and the least count whose product with 11
\* passes 2^64
ZXCounts ==
    {<<0, 0, 0, 0>>, <<1, 0, 0, 0>>, <<2, 0, 0, 0>>, <<100, 0, 0, 0>>,
     <<17874, 23831, 53620, 5957>>}

IPIPStarts == {<<16, 0>>, <<32, 0>>}

IPIPEnds == {<<8, 0>>, <<16, 0>>, <<32, 0>>, <<48, 0>>, <<65520, 65535>>}

LoadFiles ==
    {[fmt |-> "qqwry", bytes |-> EncLimbs(<<8, 0>>) \o EncLimbs(e)] : e \in QQwryEnds}
    \cup {[fmt |-> "zxipv6",
           bytes |-> IPDB \o <<0, 0, 3, 8>> \o EncLimbs(c) \o EncLimbs(<<24, 0, 0, 0>>)] :
          c \in ZXCounts}
    \cup {[fmt |-> "ipip",
           bytes |-> EncLimbs(<<1, 0>>) \o EncLimbs(<<0, 0>>) \o EncLimbs(st) \o EncLimbs(e)] :
          st \in IPIPStarts, e \in IPIPEnds}

\* the file is shorter than the index end its header declares
Truncated(fmt, d) ==
    IF fmt = "qqwry" THEN Len(d) >= 8 /\ ~BInBounds(d, u32_from_le_bytes(d, 4), 0)
    ELSE IF fmt = "ipip" THEN Len(d) >= 16 /\ ~BInBounds(d, u32_from_le_bytes(d, 12), 0)
    ELSE /\ Len(d) >= 24
         /\ LET prod == BMul(u64_from_le_bytes(d, 8), ZX_STRIDE)
                end == BAdd(u64_from_le_bytes(d, 16), prod.val)
            IN  prod.over \/ end.over \/ ~BInBounds(d, end.val, 0)

NewHandle(fmt) ==
    IF fmt = "qqwry" THEN QQwryDatabase_new
    ELSE IF fmt = "zxipv6" THEN ZXIPv6Database_new
    ELSE IPIPDatabase_new

InitLoad ==
    /\ \E f \in LoadFiles : \E n \in LoadLens :
          /\ data = Take(f.bytes \o Zeros(40), n)
          /\ ghost = [kind |-> "load", fmt |-> f.fmt,
                      truncated |-> Truncated(f.fmt, Take(f.bytes \o Zeros(40), n))]
          /\ hdl = NewHandle(f.fmt)
    /\ target = <<0, 0>>
    /\ build \in Builds
    /\ pc = "start"
    /\ sres = None
    /\ res = None
    /\ MIdle

\* ZXIPv6Database::load_from_file
ZXLoad ==
    /\ pc = "start"
    /\ hdl.kind = "zxipv6"
    /\ LET r == ZX_load_from_file(data, build)
       IN  /\ hdl' = IF r.kind = "ok" THEN r.h ELSE hdl
           /\ res' = [kind |-> r.kind]
           /\ pc' = IF r.kind = "ok" THEN "loaded" ELSE "rejected"
    /\ UNCHANGED <<data, target, build, sres, ghost>>
    /\ UNCHANGED mvars

\* IPIPDatabase::load_from_file: the mapping is kept when the header fails
IPIPLoad ==
    /\ pc = "start"
    /\ hdl.kind = "ipip"
    /\ LET r == IPIP_load_from_file(data, build)
       IN  /\ hdl' = IF r.kind = "panic" THEN hdl ELSE r.h
           /\ res' = [kind |-> r.kind]
           /\ pc' = IF r.kind = "ok" THEN "loaded" ELSE "rejected"
    /\ UNCHANGED <<data, target, build, sres, ghost>>
    /\ UNCHANGED mvars

\* Database::lookup_ip on a handle whose load_from_file was not called or
\* returned an error
LookupNotLoaded ==
    /\ pc = "start" \/ (pc = "rejected" /\ res.kind = "err")
    /\ ~hdl.loaded
    /\ res' = IF hdl.kind = "qqwry" THEN QQwry_lookup_ipv4(data, hdl, target)
              ELSE IF hdl.kind = "zxipv6"
              THEN ZX_lookup_ip(data, hdl, [k \in 1..16 |-> 0], build)
              ELSE IPIP_lookup_ip_internal_v4(data, hdl, target, build)
    /\ pc' = "probed"
    /\ UNCHANGED <<data, target, build, hdl, sres, ghost>>
    /\ UNCHANGED mvars

NextLoad == QQwryLoad \/ ZXLoad \/ IPIPLoad \/ LookupNotLoaded

SpecLoad == InitLoad /\ [][NextLoad]_vars

NextZ == ZXLoad \/ ZXSearchIndex

SpecZ == InitZ /\ [][NextZ]_vars

(***************************************************************************)
(* IPIP scenarios: a file of 1..MaxRecs sorted, disjoint records is        *)
(* loaded and one IPv4 address is looked up.  index_end is either the      *)
(* offset behind the last record or the offset of the last record.         *)
(***************************************************************************)
MaxRecs == 3

IPIPWidths == {0, 5}

IPIPTargets == {0, 10, 12, 15, 16, 20, 25, 30, 35, 40}

IPIPText == <<67, 104, 105, 110, 97, 0, 67, 105, 116, 121, 0>>

IPIPRecordBytes(r) ==
    EncLimbs(r.start_ip) \o EncLimbs(r.end_ip) \o <<0, 0, 0, 0, 0, 0, 0, 0>>

IPIPFile(recs, index_end) ==
    LET n == Len(recs)
        text_start == index_end + ((index_end - 16) \div 16) * 16
        rec_end == 16 + 16 * n
    IN  EncLimbs(<<1, 0>>) \o EncLimbs(<<0, 0>>) \o EncLimbs(<<16, 0>>)
            \o EncLimbs(BOf(index_end, 2))
            \o Concat([i \in 1..n |-> IPIPRecordBytes(recs[i])])
            \o Zeros(IF text_start > rec_end THEN text_start - rec_end ELSE 0)
            \o IPIPText

InitC ==
    /\ \E n \in 1..MaxRecs : \E w \in [1..n -> IPIPWidths] : \E last \in BOOLEAN :
          LET recs == [i \in 1..n |-> [start_ip |-> BOf(10 * i, 2),
                                       end_ip |-> BOf(10 * i + w[i], 2)]]
              index_end == IF last THEN 16 * n ELSE 16 + 16 * n
          IN  /\ ghost = [kind |-> "ipip", recs |-> recs, index_end |-> index_end]
              /\ data = IPIPFile(recs, index_end)
    /\ \E t \in IPIPTargets : target = BOf(t, 2)
    /\ build \in Builds
    /\ pc = "start"
    /\ hdl = IPIPDatabase_new
    /\ sres = None
    /\ res = None
    /\ MIdle

\* lookup_ip(IpAddr::V4) on a loaded handle
IPIPLookup ==
    /\ pc = "loaded"
    /\ hdl.kind = "ipip"
    /\ res' = IPIP_lookup_ip_internal_v4(data, hdl, target, build)
    /\ pc' = "done"
    /\ UNCHANGED <<data, target, build, hdl, sres, ghost>>
    /\ UNCHANGED mvars

NextC == IPIPLoad \/ IPIPLookup

SpecC == InitC /\ [][NextC]_vars

(***************************************************************************)
(* DatabaseManager.  Callers run query_ip and query_cdn concurrently; each *)
(* action is one step of one caller between two points where another       *)
(* caller can run.  Both maps are HashMaps, held as sets of <<key, value>>. *)
(***************************************************************************)
Threads == {"t1", "t2"}

MaxCalls == 3

contains_key(m, k) == \E p \in m : p[1] = k

get(m, k) == (CHOOSE p \in m : p[1] = k)[2]

\* a map of one slot: the insert evicts every other entry
insert_evict(m, k, v) == {<<k, v>>}

\* mutant: the old entry of the key is kept
insert_keep(m, k, v) == m \cup {<<k, v>>}

\* HashMap::insert: the value of an existing key is replaced
insert(m, k, v) == {p \in m : p[1] # k} \cup {<<k, v>>}

NoThread == "nobody"

RwLock_new == [readers |-> {}, writer |-> NoThread]

\* RwLock::read blocks while a writer holds the lock
CanRead(l) == l.writer = NoThread

\* RwLock::write blocks while anyone holds the lock
CanWrite(l) == l.writer = NoThread /\ l.readers = {}

AcquireRead(l, t) == [l EXCEPT !.readers = @ \cup {t}]

AcquireWrite(l, t) == [l EXCEPT !.writer = t]

\* mutant: the read guard outlives its block
ReleaseRead_keep(l, t) == l

\* the read guard is dropped at the end of its block
ReleaseRead(l, t) == [l EXCEPT !.readers = @ \ {t}]

ReleaseWrite(l, t) == [l EXCEPT !.writer = NoThread]

Holds(l, t) == t \in l.readers \/ l.writer = t

\* get_database_type
get_database_type(name) ==
    IF name \in {"qqwry", "chunzhen"} THEN "QQwry"
    ELSE IF name \in {"zxipv6wry", "zxipv6"} THEN "ZXIPv6Wry"
    ELSE IF name \in {"geoip", "geoip2", "geolite"} THEN "GeoIP2"
    ELSE IF name = "ipip" THEN "IPIP"
    ELSE IF name = "ip2region" THEN "IP2Region"
    ELSE IF name = "dbip" THEN "DBIP"
    ELSE IF name = "ip2location" THEN "IP2Location"
    ELSE IF name = "cdn" THEN "CDN"
    ELSE "unknown"

\* The configuration of the scenarios: an IPIP file that a direct URL can
\* provision, a GeoIP2 file listed without URLs, and the CDN list.
DbNames == {"ipip", "geoip", "cdn"}

Ipv6Names == {"geoip", "nosuchdb"}

Config(n6) ==
    [ipv4_database |-> "ipip", ipv6_database |-> n6, cdn_database |-> "cdn",
     databases |-> {"ipip", "geoip", "cdn"}, download_urls |-> {"ipip", "cdn"}]

\* the queries callers make: an IPv4 address, an IPv6 address, a domain
Inputs ==
    {[op |-> "ip", family |-> 4, key |-> "ip:0.0.0.10", addr |-> <<10, 0>>],
     [op |-> "ip", family |-> 6, key |-> "ip:::1", addr |-> <<1, 0>>],
     [op |-> "cdn", family |-> 0, key |-> "cdn:example.com", addr |-> <<0, 0>>]}

\* what the provisioning source serves for the IPIP database
IPIPContent ==
    IPIPFile(<<[start_ip |-> <<10, 0>>, end_ip |-> <<10, 0>>]>>, 16)

\* the stream delivers the body in chunks ending at these offsets
ChunkEnds == {24, Len(IPIPContent)}

NextChunkEnd(off) == CHOOSE e \in ChunkEnds : e > off /\ \A f \in ChunkEnds : f > off => e <= f

Absent == [exists |-> FALSE, bytes |-> <<>>, kind |-> "absent"]

\* File::write_all at the writer's own offset; a gap left by a truncation is
\* a hole of zero bytes
WriteAt(f, off, chunk) ==
    LET old == f.bytes
        n == IF Len(old) > off + Len(chunk) THEN Len(old) ELSE off + Len(chunk)
    IN  [f EXCEPT !.bytes = [i \in 1..n |->
             IF i > off /\ i <= off + Len(chunk) THEN chunk[i - off]
             ELSE IF i <= Len(old) THEN old[i] ELSE 0]]

\* the bytes a mapping of `size` bytes shows of the file as it is now: bytes
\* behind the end of the file, within its last page, read as zero
MmapView(f, size) ==
    [i \in 1..size |-> IF i <= Len(f.bytes) THEN f.bytes[i] ELSE 0]

\* Database::load_from_file of the handle DatabaseFactory::create made
load_from_file(type, f) ==
    IF type = "IPIP"
    THEN LET r == IPIP_load_from_file(f.bytes, "release")
         IN  IF r.kind = "ok" /\ Len(f.bytes) > 0
             THEN [kind |-> "ok", h |-> r.h]
             ELSE [kind |-> "err", at |-> "load"]
    ELSE IF type = "GeoIP2"
    THEN IF f.kind = "bad" THEN [kind |-> "err", at |-> "load"]
         ELSE [kind |-> "ok", h |-> [kind |-> "geoip2", loaded |-> TRUE, reader |-> f.kind]]
    ELSE IF type = "CDN"
    THEN [kind |-> "ok", h |-> [kind |-> "cdn", loaded |-> TRUE]]
    ELSE [kind |-> "err", at |-> "load"]

Sigbus == [kind |-> "sigbus"]

\* Database::lookup_ip / lookup_cdn through the handle stored in the map
lookup(h, f, inp) ==
    IF h.kind = "ipip"
    THEN IF inp.op = "cdn" THEN [kind |-> "ok", val |-> None]
         ELSE IF inp.family = 6
         THEN [kind |-> "ok",
               val |-> IF h.header.support_ipv6
                       THEN [kind |-> "some", ip |-> inp.addr] ELSE None]
         ELSE IF Len(f.bytes) = 0 THEN Sigbus
         ELSE LET r == IPIP_lookup_ip_internal_v4(MmapView(f, h.file_size), h,
                                                  inp.addr, "release")
              IN  IF r.kind \in {"panic", "diverge"} THEN r
                  ELSE IF r.kind = "err" THEN [kind |-> "err", at |-> "lookup"]
                  ELSE [kind |-> "ok", val |-> r]
    ELSE IF h.kind = "geoip2"
    THEN IF inp.op = "cdn" THEN [kind |-> "ok", val |-> None]
         ELSE IF h.reader = "corrupt" THEN [kind |-> "err", at |-> "lookup"]
         ELSE [kind |-> "ok", val |-> [kind |-> "some", ip |-> inp.addr]]
    ELSE [kind |-> "ok", val |-> None]

\* mutant: an error of the lookup is treated as a result
Propagate_never(r) == FALSE

\* the ? operator: an Err leaves the function at once
Propagate(r) == r.kind = "err"

\* mutant: the handle map is never consulted
AlreadyLoaded_never(dbs, name) == FALSE

\* mutant: every name counts as loaded
AlreadyLoaded_always(dbs, name) == TRUE

\* if dbs.contains_key(name) { return Ok(()) }
AlreadyLoaded(dbs, name) == contains_key(dbs, name)

IdleCaller ==
    [pc |-> "idle", inp |-> None, name |-> "", r |-> None, mine |-> None,
     off |-> 0, sawEmpty |-> FALSE, wroteDbs |-> FALSE, wroteCache |-> FALSE,
     basis |-> None]

Worlds ==
    {[n6 |-> "nosuchdb", geo |-> Absent, listed |-> TRUE],
     [n6 |-> "geoip", geo |-> Absent, listed |-> TRUE],
     [n6 |-> "geoip", geo |-> Absent, listed |-> FALSE],
     [n6 |-> "geoip", geo |-> [exists |-> TRUE, bytes |-> <<>>, kind |-> "good"],
      listed |-> TRUE],
     [n6 |-> "geoip", geo |-> [exists |-> TRUE, bytes |-> <<>>, kind |-> "corrupt"],
      listed |-> TRUE],
     [n6 |-> "geoip", geo |-> [exists |-> TRUE, bytes |-> <<>>, kind |-> "bad"],
      listed |-> TRUE]}

InitM ==
    /\ data = <<>>
    /\ target = <<0, 0>>
    /\ build = "release"
    /\ pc = "manager"
    /\ hdl = None
    /\ sres = None
    /\ res = None
    /\ ghost = None
    /\ th = [t \in Threads |-> IdleCaller]
    /\ databases = {}
    /\ query_cache = {}
    /\ dbs_lock = RwLock_new
    /\ cache_lock = RwLock_new
    /\ \E w \in Worlds : \E present \in BOOLEAN :
          /\ cfg = IF w.listed THEN Config(w.n6)
                   ELSE [Config(w.n6) EXCEPT !.databases = @ \ {"geoip"}]
          /\ files = [n \in DbNames |->
                IF n = "ipip"
                THEN IF present
                     THEN [exists |-> TRUE, bytes |-> IPIPContent, kind |-> "good"]
                     ELSE Absent
                ELSE IF n = "geoip" THEN w.geo
                ELSE [exists |-> TRUE, bytes |-> <<>>, kind |-> "good"]]
    /\ budget = MaxCalls
    /\ hist = [settled |-> {}, loads |-> [n \in DbNames |-> 0], crashed |-> FALSE]

Alive == ~hist.crashed

\* a caller enters query_ip or query_cdn
Begin ==
    \E t \in Threads : \E inp \in Inputs :
        /\ Alive /\ th[t].pc = "idle" /\ budget > 0
        /\ th' = [th EXCEPT ![t] = [IdleCaller EXCEPT
                     !.pc = "q_cache_rd", !.inp = inp,
                     !.basis = IF contains_key(hist.settled, inp.key)
                               THEN get(hist.settled, inp.key) ELSE None]]
        /\ budget' = budget - 1
        /\ UNCHANGED <<databases, query_cache, dbs_lock, cache_lock, files, cfg, hist>>
        /\ UNCHANGED fvars

\* self.query_cache.read()
CacheReadLock ==
    \E t \in Threads :
        /\ Alive /\ th[t].pc = "q_cache_rd" /\ CanRead(cache_lock)
        /\ cache_lock' = AcquireRead(cache_lock, t)
        /\ th' = [th EXCEPT ![t].pc = "q_cache_chk"]
        /\ UNCHANGED <<databases, query_cache, dbs_lock, files, cfg, budget, hist>>
        /\ UNCHANGED fvars

\* cache.get(&cache_key): a hit returns the cached result
CacheCheck ==
    \E t \in Threads :
        /\ Alive /\ th[t].pc = "q_cache_chk"
        /\ cache_lock' = ReleaseRead(cache_lock, t)
        /\ th' = IF contains_key(query_cache, th[t].inp.key)
                 THEN [th EXCEPT ![t].pc = "ret",
                                 ![t].r = get(query_cache, th[t].inp.key)]
                 ELSE IF th[t].inp.op = "cdn"
                 THEN [th EXCEPT ![t].pc = "g_rd", ![t].name = cfg.cdn_database]
                 ELSE [th EXCEPT ![t].pc = "q_type"]
        /\ UNCHANGED <<databases, query_cache, dbs_lock, files, cfg, budget, hist>>
        /\ UNCHANGED fvars

\* query_ip: the database of the address family and its type
GetType ==
    \E t \in Threads :
        /\ Alive /\ th[t].pc = "q_type"
        /\ LET name == IF th[t].inp.family = 4 THEN cfg.ipv4_database
                       ELSE cfg.ipv6_database
           IN  th' = IF get_database_type(name) = "unknown"
                     THEN [th EXCEPT ![t].pc = "ret", ![t].name = name,
                                     ![t].r = [kind |-> "err", at |-> "type"]]
                     ELSE [th EXCEPT ![t].pc = "g_rd", ![t].name = name]
        /\ UNCHANGED <<databases, query_cache, dbs_lock, cache_lock, files, cfg, budget, hist>>
        /\ UNCHANGED fvars

\* self.databases.read(), in get_or_load_database and before the lookup
DbsReadLock ==
    \E t \in Threads :
        /\ Alive /\ th[t].pc \in {"g_rd", "l_rd"} /\ CanRead(dbs_lock)
        /\ dbs_lock' = AcquireRead(dbs_lock, t)
        /\ th' = [th EXCEPT ![t].pc = IF th[t].pc = "g_rd" THEN "g_chk" ELSE "l_lookup"]
        /\ UNCHANGED <<databases, query_cache, cache_lock, files, cfg, budget, hist>>
        /\ UNCHANGED fvars

\* get_or_load_database: the check for a handle already in the map
DbsCheck ==
    \E t \in Threads :
        /\ Alive /\ th[t].pc = "g_chk"
        /\ dbs_lock' = ReleaseRead(dbs_lock, t)
        /\ th' = [th EXCEPT
                     ![t].pc = IF AlreadyLoaded(databases, th[t].name)
                               THEN "l_rd" ELSE "g_exists",
                     ![t].sawEmpty = ~contains_key(databases, th[t].name)]
        /\ UNCHANGED <<databases, query_cache, cache_lock, files, cfg, budget, hist>>
        /\ UNCHANGED fvars

\* mutant: every name is taken to have a download source
HasDownloadSource_always(c, name) == TRUE

\* the name has an entry in the database list and the entry has URLs
HasDownloadSource(c, name) == name \in c.databases /\ name \in c.download_urls

\* DatabaseFactory::create, get_database_path, db_path.exists()
FileCheck ==
    \E t \in Threads :
        /\ Alive /\ th[t].pc = "g_exists"
        /\ th' = IF files[th[t].name].exists
                 THEN [th EXCEPT ![t].pc = "g_load"]
                 ELSE IF HasDownloadSource(cfg, th[t].name)
                 THEN [th EXCEPT ![t].pc = "dl_send"]
                 ELSE [th EXCEPT ![t].pc = "ret",
                                 ![t].r = [kind |-> "err", at |-> "notfound"]]
        /\ UNCHANGED <<databases, query_cache, dbs_lock, cache_lock, files, cfg, budget, hist>>
        /\ UNCHANGED fvars

\* download_file: the request is sent; the source answers or fails
DownloadSend ==
    \E t \in Threads : \E answered \in BOOLEAN :
        /\ Alive /\ th[t].pc = "dl_send"
        /\ th' = IF answered THEN [th EXCEPT ![t].pc = "dl_create"]
                 ELSE [th EXCEPT ![t].pc = "ret",
                                 ![t].r = [kind |-> "err", at |-> "download"]]
        /\ UNCHANGED <<databases, query_cache, dbs_lock, cache_lock, files, cfg, budget, hist>>
        /\ UNCHANGED fvars

\* download_file: File::create(dest) truncates the destination
DownloadCreate ==
    \E t \in Threads :
        /\ Alive /\ th[t].pc = "dl_create"
        /\ files' = [files EXCEPT ![th[t].name] =
                        [exists |-> TRUE, bytes |-> <<>>, kind |-> "good"]]
        /\ th' = [th EXCEPT ![t].pc = "dl_chunk", ![t].off = 0]
        /\ UNCHANGED <<databases, query_cache, dbs_lock, cache_lock, cfg, budget, hist>>
        /\ UNCHANGED fvars

\* download_file: one chunk of the stream is written, or the stream fails
DownloadChunk ==
    \E t \in Threads : \E arrived \in BOOLEAN :
        /\ Alive /\ th[t].pc = "dl_chunk"
        /\ IF arrived
           THEN LET e == NextChunkEnd(th[t].off)
                IN  /\ files' = [files EXCEPT ![th[t].name] =
                           WriteAt(@, th[t].off, SubSeq(IPIPContent, th[t].off + 1, e))]
                    /\ th' = [th EXCEPT ![t].off = e,
                                 ![t].pc = IF e = Len(IPIPContent) THEN "g_load"
                                           ELSE "dl_chunk"]
           ELSE /\ th' = [th EXCEPT ![t].pc = "ret",
                                    ![t].r = [kind |-> "err", at |-> "download"]]
                /\ UNCHANGED files
        /\ UNCHANGED <<databases, query_cache, dbs_lock, cache_lock, cfg, budget, hist>>
        /\ UNCHANGED fvars

\* a caller that went back to the download after a failed load
AfterLoad_retry(r) == IF r.kind = "ok" THEN "g_wr" ELSE "dl_send"

\* `db.load_from_file(db_path...)?`: the error leaves get_or_load_database at
\* once, a loaded handle goes on to the write lock
AfterLoad(r) == IF r.kind = "ok" THEN "g_wr" ELSE "ret"

\* db.load_from_file(db_path): the new handle is local until it is inserted
LoadFile ==
    \E t \in Threads :
        /\ Alive /\ th[t].pc = "g_load"
        /\ LET type == IF th[t].inp.op = "cdn" THEN "CDN"
                       ELSE get_database_type(th[t].name)
               r == load_from_file(type, files[th[t].name])
               n == hist.loads[th[t].name] + 1
           IN  /\ th' = IF r.kind = "ok"
                        THEN [th EXCEPT ![t].pc = AfterLoad(r),
                                        ![t].mine = [id |-> n, h |-> r.h]]
                        ELSE [th EXCEPT ![t].pc = AfterLoad(r), ![t].r = r]
               /\ hist' = [hist EXCEPT !.loads[th[t].name] = n]
        /\ UNCHANGED <<databases, query_cache, dbs_lock, cache_lock, files, cfg, budget>>
        /\ UNCHANGED fvars

\* self.databases.write()
DbsWriteLock ==
    \E t \in Threads :
        /\ Alive /\ th[t].pc = "g_wr" /\ CanWrite(dbs_lock)
        /\ dbs_lock' = AcquireWrite(dbs_lock, t)
        /\ th' = [th EXCEPT ![t].pc = "g_ins"]
        /\ UNCHANGED <<databases, query_cache, cache_lock, files, cfg, budget, hist>>
        /\ UNCHANGED fvars

\* dbs.insert(name.to_string(), db)
DbsInsert ==
    \E t \in Threads :
        /\ Alive /\ th[t].pc = "g_ins"
        /\ databases' = insert(databases, th[t].name, th[t].mine)
        /\ dbs_lock' = ReleaseWrite(dbs_lock, t)
        /\ th' = [th EXCEPT ![t].pc = "l_rd", ![t].wroteDbs = TRUE]
        /\ UNCHANGED <<query_cache, cache_lock, files, cfg, budget, hist>>
        /\ UNCHANGED fvars

\* dbs.get(db_name) and db.lookup_ip(ip)? / db.lookup_cdn(domain)?, under the
\* read guard taken by DbsReadLock
Lookup ==
    \E t \in Threads :
        /\ Alive /\ th[t].pc = "l_lookup"
        /\ LET r == IF contains_key(databases, th[t].name)
                    THEN lookup(get(databases, th[t].name).h, files[th[t].name],
                                th[t].inp)
                    ELSE [kind |-> "ok", val |-> None]
           IN  IF r.kind \in {"sigbus", "panic", "diverge"}
               THEN /\ th' = [th EXCEPT ![t].pc = "aborted", ![t].r = r]
                    /\ hist' = [hist EXCEPT !.crashed = TRUE]
                    /\ UNCHANGED dbs_lock
               ELSE /\ th' = [th EXCEPT ![t].r = r,
                                 ![t].pc = IF Propagate(r) THEN "ret" ELSE "c_wr"]
                    /\ dbs_lock' = ReleaseRead(dbs_lock, t)
                    /\ UNCHANGED hist
        /\ UNCHANGED <<databases, query_cache, cache_lock, files, cfg, budget>>
        /\ UNCHANGED fvars

\* self.query_cache.write()
CacheWriteLock ==
    \E t \in Threads :
        /\ Alive /\ th[t].pc = "c_wr" /\ CanWrite(cache_lock)
        /\ cache_lock' = AcquireWrite(cache_lock, t)
        /\ th' = [th EXCEPT ![t].pc = "c_ins"]
        /\ UNCHANGED <<databases, query_cache, dbs_lock, files, cfg, budget, hist>>
        /\ UNCHANGED fvars

\* cache.insert(cache_key, result.clone()); hist.settled keeps the first
\* result a call obtained for the key since the cache was last cleared
CacheInsert ==
    \E t \in Threads :
        /\ Alive /\ th[t].pc = "c_ins"
        /\ query_cache' = insert(query_cache, th[t].inp.key, th[t].r)
        /\ cache_lock' = ReleaseWrite(cache_lock, t)
        /\ th' = [th EXCEPT ![t].pc = "ret", ![t].wroteCache = TRUE]
        /\ hist' = IF contains_key(hist.settled, th[t].inp.key) THEN hist
                   ELSE [hist EXCEPT !.settled = insert(@, th[t].inp.key, th[t].r)]
        /\ UNCHANGED <<databases, dbs_lock, files, cfg, budget>>
        /\ UNCHANGED fvars

\* the call hands its result to the caller
Return ==
    \E t \in Threads :
        /\ Alive /\ th[t].pc \in {"ret", "cs_ret"}
        /\ th' = [th EXCEPT ![t] = IdleCaller]
        /\ UNCHANGED <<databases, query_cache, dbs_lock, cache_lock, files, cfg, budget, hist>>
        /\ UNCHANGED fvars

\* clear_cache: self.query_cache.write()
ClearLock ==
    \E t \in Threads :
        /\ Alive /\ th[t].pc = "idle" /\ budget > 0 /\ CanWrite(cache_lock)
        /\ cache_lock' = AcquireWrite(cache_lock, t)
        /\ th' = [th EXCEPT ![t].pc = "cc_clear"]
        /\ budget' = budget - 1
        /\ UNCHANGED <<databases, query_cache, dbs_lock, files, cfg, hist>>
        /\ UNCHANGED fvars

\* clear_cache: cache.clear()
ClearCache ==
    \E t \in Threads :
        /\ Alive /\ th[t].pc = "cc_clear"
        /\ query_cache' = {}
        /\ cache_lock' = ReleaseWrite(cache_lock, t)
        /\ th' = [u \in Threads |->
                     IF u = t THEN IdleCaller ELSE [th[u] EXCEPT !.basis = None]]
        /\ hist' = [hist EXCEPT !.settled = {}]
        /\ UNCHANGED <<databases, dbs_lock, files, cfg, budget>>
        /\ UNCHANGED fvars

\* cache_stats: self.databases.read().map(|dbs| dbs.len()), the guard is
\* dropped at the end of the statement
StatsDbs ==
    \E t \in Threads :
        /\ Alive /\ th[t].pc = "idle" /\ budget > 0 /\ CanRead(dbs_lock)
        /\ th' = [th EXCEPT ![t].pc = "cs_cache",
                            ![t].r = [kind |-> "stats",
                                      db_count |-> Cardinality(databases),
                                      cache_count |-> 0]]
        /\ budget' = budget - 1
        /\ UNCHANGED <<databases, query_cache, dbs_lock, cache_lock, files, cfg, hist>>
        /\ UNCHANGED fvars

\* cache_stats: self.query_cache.read().map(|cache| cache.len())
StatsCache ==
    \E t \in Threads :
        /\ Alive /\ th[t].pc = "cs_cache" /\ CanRead(cache_lock)
        /\ th' = [th EXCEPT ![t].pc = "cs_ret",
                            ![t].r.cache_count = Cardinality(query_cache)]
        /\ UNCHANGED <<databases, query_cache, dbs_lock, cache_lock, files, cfg, budget, hist>>
        /\ UNCHANGED fvars

NextM ==
    \/ Begin \/ CacheReadLock \/ CacheCheck \/ GetType \/ DbsReadLock \/ DbsCheck
    \/ FileCheck \/ DownloadSend \/ DownloadCreate \/ DownloadChunk \/ LoadFile
    \/ DbsWriteLock \/ DbsInsert \/ Lookup \/ CacheWriteLock \/ CacheInsert
    \/ Return \/ ClearLock \/ ClearCache \/ StatsDbs \/ StatsCache

SpecM == InitM /\ [][NextM]_vars

\* the calls of the fair scenario
MaxFairCalls == 2

\* the manager of InitM where the IPv6 database is a GeoIP2 file on disk and
\* the IPIP file is there or has to be downloaded
InitMFair ==
    /\ data = <<>>
    /\ target = <<0, 0>>
    /\ build = "release"
    /\ pc = "manager"
    /\ hdl = None
    /\ sres = None
    /\ res = None
    /\ ghost = None
    /\ th = [t \in Threads |-> IdleCaller]
    /\ databases = {}
    /\ query_cache = {}
    /\ dbs_lock = RwLock_new
    /\ cache_lock = RwLock_new
    /\ cfg = Config("geoip")
    /\ \E present \in BOOLEAN :
          files = [n \in DbNames |->
                IF n = "ipip"
                THEN IF present
                     THEN [exists |-> TRUE, bytes |-> IPIPContent, kind |-> "good"]
                     ELSE Absent
                ELSE [exists |-> TRUE, bytes |-> <<>>, kind |-> "good"]]
    /\ budget = MaxFairCalls
    /\ hist = [settled |-> {}, loads |-> [n \in DbNames |-> 0], crashed |-> FALSE]

\* caller t moves
Moves(t) == th'[t].pc # th[t].pc

\* WF_vars of the step caller t takes at p, for a step that is possible
\* wherever t is at p and that leaves p: t is not at p for ever
FairAt(t, p) == []<>~(Alive /\ th[t].pc = p)

\* Fair scheduling: a caller inside a call whose next step stays possible
\* takes it; the requests and the stream of a download answer or fail.
\* Whether a call is made at all is left open.
FairCaller(t) ==
    /\ WF_vars(CacheReadLock /\ Moves(t)) /\ WF_vars(CacheCheck /\ Moves(t))
    /\ WF_vars(GetType /\ Moves(t)) /\ WF_vars(DbsReadLock /\ Moves(t))
    /\ WF_vars(DbsCheck /\ Moves(t)) /\ WF_vars(FileCheck /\ Moves(t))
    /\ WF_vars(DownloadSend /\ Moves(t)) /\ WF_vars(DownloadCreate /\ Moves(t))
    /\ WF_vars(DownloadChunk /\ Moves(t)) /\ FairAt(t, "g_load")
    /\ WF_vars(DbsWriteLock /\ Moves(t)) /\ WF_vars(DbsInsert /\ Moves(t))
    /\ FairAt(t, "l_lookup") /\ WF_vars(CacheWriteLock /\ Moves(t))
    /\ WF_vars(CacheInsert /\ Moves(t)) /\ WF_vars(Return /\ Moves(t))
    /\ WF_vars(ClearCache /\ Moves(t)) /\ WF_vars(StatsCache /\ Moves(t))

SpecMFair == InitMFair /\ [][NextM]_vars /\ \A t \in Threads : FairCaller(t)

(***************************************************************************)
(* CDNDatabase (database/common/mod.rs): parse_yaml, wildcard_to_regex,    *)
(* extract_base_domain, match_regex, lookup_cdn.  A string is the sequence *)
(* of its characters.                                                      *)
(***************************************************************************)
UpperCase ==
    <<"A", "B", "C", "D", "E", "F", "G", "H", "I", "J", "K", "L", "M",
      "N", "O", "P", "Q", "R", "S", "T", "U", "V", "W", "X", "Y", "Z">>

LowerCase ==
    <<"a", "b", "c", "d", "e", "f", "g", "h", "i", "j", "k", "l", "m",
      "n", "o", "p", "q", "r", "s", "t", "u", "v", "w", "x", "y", "z">>

to_lowercase(s) ==
    [i \in 1..Len(s) |->
        IF \E k \in 1..Len(UpperCase) : UpperCase[k] = s[i]
        THEN LowerCase[CHOOSE k \in 1..Len(UpperCase) : UpperCase[k] = s[i]]
        ELSE s[i]]

\* str::contains(char)
contains(s, c) == \E i \in 1..Len(s) : s[i] = c

\* str::split(char): the pieces between the separators, empty ones too
RECURSIVE split(_, _)
split(s, c) ==
    IF ~contains(s, c) THEN <<s>>
    ELSE LET i == CHOOSE i \in 1..Len(s) : s[i] = c /\ \A j \in 1..(i - 1) : s[j] # c
         IN  <<SubSeq(s, 1, i - 1)>> \o split(SubSeq(s, i + 1, Len(s)), c)

join(parts, c) ==
    IF parts = <<>> THEN <<>>
    ELSE parts[1] \o Concat([i \in 1..(Len(parts) - 1) |-> <<c>> \o parts[i + 1]])

\* mutant: only the full domain is a candidate
extract_base_domain_full(domain) == <<to_lowercase(domain)>>

\* the candidates: the full domain and, with two labels or more, the last two
extract_base_domain(domain) ==
    LET parts == split(domain, ".")
    IN  <<to_lowercase(domain)>>
            \o (IF Len(parts) >= 2
                THEN <<to_lowercase(join(SubSeq(parts, Len(parts) - 1, Len(parts)), "."))>>
                ELSE <<>>)

RegexMeta == {".", "\\", "+", "^", "$", "(", ")", "[", "]", "{", "}", "|"}

\* mutant: the star is escaped like a metacharacter
wildcard_to_regex_literal(pattern) ==
    <<"^">> \o Concat([i \in 1..Len(pattern) |->
                          IF pattern[i] = "?" THEN <<".">>
                          ELSE IF pattern[i] \in RegexMeta \cup {"*"}
                          THEN <<"\\", pattern[i]>>
                          ELSE <<pattern[i]>>])
            \o <<"$">>

\* "*.example.com" -> "^.*\.example\.com$"
wildcard_to_regex(pattern) ==
    <<"^">> \o Concat([i \in 1..Len(pattern) |->
                          IF pattern[i] = "*" THEN <<".", "*">>
                          ELSE IF pattern[i] = "?" THEN <<".">>
                          ELSE IF pattern[i] \in RegexMeta THEN <<"\\", pattern[i]>>
                          ELSE <<pattern[i]>>])
            \o <<"$">>

(***************************************************************************)
(* Regex::new and Regex::is_match for the fragment the patterns use:       *)
(* literals, escapes, the dot, bracket classes of listed characters and    *)
(* the range a-z, the anchors, and the repetitions * and +.  An unclosed   *)
(* group or class, a dangling escape and a repetition of nothing do not    *)
(* compile; what lies outside the fragment is reported as "outside".       *)
(***************************************************************************)
RegexAtom(t, i) ==
    LET c == t[i]
    IN  IF c = "\\"
        THEN IF i + 1 > Len(t) THEN [kind |-> "err"]
             ELSE [kind |-> "ok", item |-> [kind |-> "lit", c |-> t[i + 1]], next |-> i + 2]
        ELSE IF c = "." THEN [kind |-> "ok", item |-> [kind |-> "any"], next |-> i + 1]
        ELSE IF c = "^" THEN [kind |-> "ok", item |-> [kind |-> "start"], next |-> i + 1]
        ELSE IF c = "$" THEN [kind |-> "ok", item |-> [kind |-> "end"], next |-> i + 1]
        ELSE IF c = "["
        THEN LET js == {j \in (i + 2)..Len(t) : t[j] = "]"}
             IN  IF js = {} THEN [kind |-> "err"]
                 ELSE LET j == CHOOSE j \in js : \A k \in js : j <= k
                          body == SubSeq(t, i + 1, j - 1)
                      IN  IF body = <<"a", "-", "z">>
                          THEN [kind |-> "ok", item |-> [kind |-> "lower"], next |-> j + 1]
                          ELSE IF contains(body, "-") \/ contains(body, "^")
                                  \/ contains(body, "\\") \/ contains(body, "[")
                          THEN [kind |-> "outside"]
                          ELSE [kind |-> "ok",
                                item |-> [kind |-> "set",
                                          chars |-> {body[k] : k \in 1..Len(body)}],
                                next |-> j + 1]
        ELSE IF c = "("
        THEN IF \E j \in (i + 1)..Len(t) : t[j] = ")"
             THEN [kind |-> "outside"] ELSE [kind |-> "err"]
        ELSE IF c \in {")", "*", "+", "?"} THEN [kind |-> "err"]
        ELSE IF c \in {"{", "}", "|"} THEN [kind |-> "outside"]
        ELSE [kind |-> "ok", item |-> [kind |-> "lit", c |-> c], next |-> i + 1]

RECURSIVE RegexItems(_, _)
RegexItems(t, i) ==
    IF i > Len(t) THEN [kind |-> "ok", items |-> <<>>]
    ELSE LET a == RegexAtom(t, i)
         IN  IF a.kind # "ok" THEN [kind |-> a.kind]
             ELSE IF a.next <= Len(t) /\ t[a.next] \in {"?", "{"}
             THEN [kind |-> "outside"]
             ELSE LET rep == IF a.next > Len(t) THEN "one"
                             ELSE IF t[a.next] = "*" THEN "star"
                             ELSE IF t[a.next] = "+" THEN "plus"
                             ELSE "one"
                      rest == RegexItems(t, IF rep = "one" THEN a.next ELSE a.next + 1)
                  IN  IF rest.kind # "ok" THEN rest
                      ELSE [kind |-> "ok",
                            items |-> <<[atom |-> a.item, rep |-> rep]>> \o rest.items]

\* Regex::new
Regex_new(t) ==
    LET r == RegexItems(t, 1)
    IN  IF r.kind = "ok" THEN [kind |-> "ok", re |-> [src |-> t, items |-> r.items]]
        ELSE [kind |-> r.kind]

CharIn(atom, c) ==
    IF atom.kind = "lit" THEN c = atom.c
    ELSE IF atom.kind = "any" THEN TRUE
    ELSE IF atom.kind = "lower" THEN \E k \in 1..Len(LowerCase) : LowerCase[k] = c
    ELSE IF atom.kind = "set" THEN c \in atom.chars
    ELSE FALSE

\* the items from the k-th on match s from position p on
RECURSIVE MatchFrom(_, _, _, _)
MatchFrom(items, k, s, p) ==
    IF k > Len(items) THEN TRUE
    ELSE LET it == items[k]
         IN  IF it.atom.kind = "start" THEN p = 1 /\ MatchFrom(items, k + 1, s, p)
             ELSE IF it.atom.kind = "end"
             THEN p = Len(s) + 1 /\ MatchFrom(items, k + 1, s, p)
             ELSE IF it.rep = "one"
             THEN p <= Len(s) /\ CharIn(it.atom, s[p]) /\ MatchFrom(items, k + 1, s, p + 1)
             ELSE \E q \in (IF it.rep = "plus" THEN p + 1 ELSE p)..(Len(s) + 1) :
                     /\ \A j \in p..(q - 1) : CharIn(it.atom, s[j])
                     /\ MatchFrom(items, k + 1, s, q)

\* Regex::is_match: a match anywhere in the text
is_match(re, s) == \E p \in 1..(Len(s) + 1) : MatchFrom(re.items, 1, s, p)

CDNDatabase_new ==
    [kind |-> "cdn", loaded |-> FALSE, exact_matches |-> {}, regex_matches |-> <<>>]

IsWildcard(pattern) == contains(pattern, "*") \/ contains(pattern, "?")

IsRegex(pattern) ==
    \/ contains(pattern, "[") \/ contains(pattern, "+")
    \/ contains(pattern, "(") \/ contains(pattern, "{")

\* the regex a pattern of the wildcard or the regex class is compiled from
RegexSource(pattern) ==
    IF IsWildcard(pattern) THEN wildcard_to_regex(pattern) ELSE pattern

\* mutant: a pattern that compiles is put into the exact map as well
AddPattern_both(h, pattern, entry) ==
    IF IsWildcard(pattern) \/ IsRegex(pattern)
    THEN LET rx == Regex_new(RegexSource(pattern))
         IN  IF rx.kind = "ok"
             THEN [h EXCEPT !.regex_matches = Append(@, [regex |-> rx.re, entry |-> entry]),
                            !.exact_matches = insert(@, to_lowercase(pattern), entry)]
             ELSE h
    ELSE [h EXCEPT !.exact_matches = insert(@, to_lowercase(pattern), entry)]

\* the body of the loop of parse_yaml
AddPattern(h, pattern, entry) ==
    IF IsWildcard(pattern) \/ IsRegex(pattern)
    THEN LET rx == Regex_new(RegexSource(pattern))
         IN  IF rx.kind = "ok"
             THEN [h EXCEPT !.regex_matches = Append(@, [regex |-> rx.re, entry |-> entry])]
             ELSE h
    ELSE [h EXCEPT !.exact_matches = insert(@, to_lowercase(pattern), entry)]

\* parse_yaml over the pairs in the order the HashMap iterates them
RECURSIVE parse_yaml(_, _)
parse_yaml(h, pairs) ==
    IF pairs = <<>> THEN h
    ELSE parse_yaml(AddPattern(h, pairs[1].pattern, pairs[1].entry), Tail(pairs))

\* CDNDatabase::load_from_file on a source that parses as a mapping
CDN_load_from_file(h, pairs) == [parse_yaml(h, pairs) EXCEPT !.loaded = TRUE]

\* the first pattern of the list that matches
match_regex(h, domain) ==
    LET hits == {i \in 1..Len(h.regex_matches) : is_match(h.regex_matches[i].regex, domain)}
    IN  IF hits = {} THEN None
        ELSE [kind |-> "some",
              entry |-> h.regex_matches[CHOOSE i \in hits : \A j \in hits : i <= j].entry]

CdnProvider(domain, entry) ==
    [kind |-> "some", domain |-> domain, provider |-> entry.name,
     description |-> entry.link]

\* a lookup that asks the regex list before the exact map
lookup_cdn_regex_first(h, domain) ==
    IF ~h.loaded THEN [kind |-> "err", at |-> "notloaded"]
    ELSE LET domain_lower == to_lowercase(domain)
             candidates == extract_base_domain(domain_lower)
             found == {i \in 1..Len(candidates) : contains_key(h.exact_matches, candidates[i])}
             rx == match_regex(h, domain_lower)
         IN  IF rx.kind = "some"
             THEN [kind |-> "ok", val |-> CdnProvider(domain, rx.entry)]
             ELSE IF found # {}
             THEN [kind |-> "ok",
                   val |-> CdnProvider(domain,
                               get(h.exact_matches,
                                   candidates[CHOOSE i \in found : \A j \in found : i <= j]))]
             ELSE [kind |-> "ok", val |-> None]

lookup_cdn(h, domain) ==
    IF ~h.loaded THEN [kind |-> "err", at |-> "notloaded"]
    ELSE LET domain_lower == to_lowercase(domain)
             candidates == extract_base_domain(domain_lower)
             found == {i \in 1..Len(candidates) : contains_key(h.exact_matches, candidates[i])}
             rx == match_regex(h, domain_lower)
         IN  IF contains_key(h.exact_matches, domain_lower)
             THEN [kind |-> "ok", val |-> CdnProvider(domain, get(h.exact_matches, domain_lower))]
             ELSE IF found # {}
             THEN [kind |-> "ok",
                   val |-> CdnProvider(domain,
                               get(h.exact_matches,
                                   candidates[CHOOSE i \in found : \A j \in found : i <= j]))]
             ELSE IF rx.kind = "some"
             THEN [kind |-> "ok", val |-> CdnProvider(domain, rx.entry)]
             ELSE [kind |-> "ok", val |-> None]

(***************************************************************************)
(* CDN scenarios: a source mapping of at most MaxPatterns distinct         *)
(* patterns is loaded, the HashMap handing the pairs to parse_yaml in any  *)
(* order, and domains are looked up.                                       *)
(***************************************************************************)
MaxPatterns == 2

P_wild == <<"*", ".", "e", "x", "a", "m", "p", "l", "e", ".", "c", "o", "m">>

P_foo == <<"f", "o", "o", ".", "*">>

P_exact == <<"e", "x", "a", "m", "p", "l", "e", ".", "c", "o", "m">>

P_upper == <<"E", "x", "a", "m", "p", "l", "e", ".", "C", "O", "M">>

P_akamai == <<"a", "k", "a", "m", "a", "i", ".", "n", "e", "t">>

P_regex == <<"[", "a", "-", "z", "]", "+", "\\", ".", "e", "x", "a", "m", "p", "l", "e", "\\", ".", "c", "o", "m">>

P_bad == <<"(", "b", "a", "d">>

P_full == <<"f", "o", "o", ".", "e", "x", "a", "m", "p", "l", "e", ".", "c", "o", "m">>

Patterns == {P_wild, P_foo, P_exact, P_upper, P_akamai, P_regex, P_bad, P_full}

D_foo == <<"f", "o", "o", ".", "e", "x", "a", "m", "p", "l", "e", ".", "c", "o", "m">>

D_base == <<"e", "x", "a", "m", "p", "l", "e", ".", "c", "o", "m">>

D_x == <<"e", "x", "a", "m", "p", "l", "e", "X", "c", "o", "m">>

D_upper == <<"F", "O", "O", ".", "E", "x", "a", "m", "p", "l", "e", ".", "C", "O", "M">>

D_akamai == <<"c", "d", "n", ".", "a", "k", "a", "m", "a", "i", ".", "n", "e", "t">>

D_other == <<"u", "n", "r", "e", "l", "a", "t", "e", "d", ".", "o", "r", "g">>

D_one == <<"f", "o", "o">>

Domains == {D_foo, D_base, D_x, D_upper, D_akamai, D_other, D_one}

\* the provider of the i-th pair of the source
CdnNames == <<"first", "second", "third", "fourth">>

PatternLists ==
    {ps \in UNION {[1..n -> Patterns] : n \in 1..MaxPatterns} :
        \A i, j \in DOMAIN ps : i # j => ps[i] # ps[j]}

\* the source mapping: the pairs in the order the document lists them
CdnSource(ps) ==
    [i \in 1..Len(ps) |-> [pattern |-> ps[i],
                           entry |-> [name |-> CdnNames[i], link |-> None]]]

InitCdn ==
    /\ \E ps \in PatternLists : data = CdnSource(ps)
    /\ target = <<>>
    /\ build = "release"
    /\ pc = "start"
    /\ hdl = CDNDatabase_new
    /\ sres = None
    /\ res = None
    /\ ghost = [kind |-> "cdn"]
    /\ MIdle

IterationOrders(n) == {f \in [1..n -> 1..n] : \A i, j \in 1..n : i # j => f[i] # f[j]}

\* load_from_file: the pairs reach parse_yaml in the HashMap's order
CdnLoad ==
    /\ pc = "start"
    /\ hdl.kind = "cdn"
    /\ \E f \in IterationOrders(Len(data)) :
          hdl' = CDN_load_from_file(hdl, [i \in 1..Len(data) |-> data[f[i]]])
    /\ pc' = "loaded"
    /\ UNCHANGED <<data, target, build, sres, res, ghost>>
    /\ UNCHANGED mvars

\* lookup_cdn(domain), before or after the load
CdnLookup ==
    /\ pc \in {"start", "loaded", "done"}
    /\ hdl.kind = "cdn"
    /\ \E d \in Domains :
          /\ target' = d
          /\ res' = lookup_cdn(hdl, d)
    /\ pc' = IF pc = "start" THEN "start" ELSE "done"
    /\ UNCHANGED <<data, build, hdl, sres, ghost>>
    /\ UNCHANGED mvars

NextCdn == CdnLoad \/ CdnLookup

SpecCdn == InitCdn /\ [][NextCdn]_vars

\* Lookup scenarios of the IPv6 format: the index is followed by one record
\* per entry, country and area as plain strings in UTF-8, some of them
\* ill-formed
ZXTexts ==
    {<<<<65>>, <<>>>>, <<CZ88, <<66>>>>, <<<<32, 228, 184, 173>>, CZ88 \o <<67>>>>,
     <<<<255, 66>>, <<228, 184>>>>}

ZXRecord(i, country, area) == country \o <<48 + i, 0>> \o area \o <<0>>

RECURSIVE ZXRecordPays(_, _, _, _)
ZXRecordPays(n, at, country, area) ==
    IF n = 0 THEN <<>>
    ELSE ZXRecordPays(n - 1, at, country, area)
            \o <<at + (n - 1) * Len(ZXRecord(1, country, area))>>

ZXAddrs ==
    {u64_to_be_bytes(hi) \o lo :
        hi \in ZXKeys,
        lo \in {[k \in 1..8 |-> 0], [k \in 1..8 |-> 255]}}

InitZL ==
    /\ \E n \in 2..MaxZXEntries : \E keys \in [1..n -> ZXKeys] :
       \E text \in ZXTexts :
          /\ \A i \in 1..(n - 1) : BLess(keys[i], keys[i + 1])
          /\ LET country == text[1]
                 area == text[2]
                 pays == ZXRecordPays(n, 24 + ZX_STRIDE * n, country, area)
             IN  /\ ghost = [kind |-> "zxl", keys |-> keys, pays |-> pays,
                             country |-> country, area |-> area]
                 /\ data = ZXFile(keys, pays, 3, <<>>)
                             \o Concat([i \in 1..n |-> ZXRecord(i, country, area)])
    /\ target = [k \in 1..16 |-> 0]
    /\ build \in Builds
    /\ pc = "start"
    /\ hdl = ZXIPv6Database_new
    /\ sres = None
    /\ res = None
    /\ MIdle

\* Database::lookup_ip on the loaded handle, for one address after another
ZXLookupIp ==
    /\ pc \in {"loaded", "done"}
    /\ hdl.kind = "zxipv6"
    /\ \E addr \in ZXAddrs :
          /\ target' = addr
          /\ res' = ZX_lookup_ip(data, hdl, addr, build)
    /\ pc' = "done"
    /\ UNCHANGED <<data, build, hdl, sres, ghost>>
    /\ UNCHANGED mvars

NextZL == ZXLoad \/ ZXLookupIp

SpecZL == InitZL /\ [][NextZL]_vars

(***************************************************************************)
(* Provisioning: AppConfig::get_database_path, the file check of           *)
(* get_or_load_database and Downloader::download_database.  A path is a    *)
(* sequence of its components; the file system is the set of the paths     *)
(* that exist.                                                             *)
(***************************************************************************)
MaxUrls == 3

\* path::database_file(file): data_dir().join(file)
database_file(file) == <<"data_dir", file>>

\* path::expand_tilde of a configured custom path
expand_tilde(p) == <<"custom", p>>

\* std::env::temp_dir().join(format!("{}.7z", db_name))
TempArchive(db_name) == <<"temp_dir", db_name, ".7z">>

\* the entry of the database list a name or an alias selects, if any
FindInfo(c, name) ==
    LET hits == {i \in 1..Len(c.databases) :
                    \/ c.databases[i].name = name
                    \/ name \in c.databases[i].name_alias}
    IN  IF hits = {} THEN None
        ELSE LET i == CHOOSE k \in hits : \A j \in hits : k <= j
             IN  [kind |-> "some", db |-> c.databases[i]]

\* AppConfig::get_database_path: the custom path under the name as passed,
\* else the file of the list entry the name or alias selects, else <name>.dat
get_database_path(c, name) ==
    IF name \in DOMAIN c.database_paths
    THEN expand_tilde(c.database_paths[name])
    ELSE LET info == FindInfo(c, name)
         IN  IF info.kind = "some" THEN database_file(info.db.file)
             ELSE <<"data_dir", name, ".dat">>

\* Downloader::download_file under the outcome the network takes: a failed
\* request leaves the disk alone, a failed chunk leaves the created file
download_file(fs, dest, outcome) ==
    IF outcome = "send_err" THEN [ok |-> FALSE, fs |-> fs]
    ELSE IF outcome = "chunk_err" THEN [ok |-> FALSE, fs |-> fs \cup {dest}]
    ELSE [ok |-> TRUE, fs |-> fs \cup {dest}]

\* Downloader::extract_7z: the member to take is known for the IPv6 names only
extract_7z(fs, archive, dest, db_name) ==
    IF db_name \in {"zxipv6wry", "zxipv6"}
    THEN [ok |-> TRUE, fs |-> fs \cup {dest}]
    ELSE [ok |-> FALSE, fs |-> fs]

\* Downloader::try_download_and_extract
try_download_and_extract(fs, url, dest, db_name, outcome) ==
    LET download_path == IF url.is_7z THEN TempArchive(db_name) ELSE dest
        d == download_file(fs, download_path, outcome)
    IN  IF ~d.ok THEN [ok |-> FALSE, fs |-> d.fs, why |-> outcome]
        ELSE IF url.is_7z
        THEN LET x == extract_7z(d.fs, download_path, dest, db_name)
             IN  IF x.ok THEN [ok |-> TRUE, fs |-> x.fs \ {download_path}, why |-> "ok"]
                 ELSE [ok |-> FALSE, fs |-> x.fs, why |-> "extract_err"]
        ELSE [ok |-> TRUE, fs |-> d.fs, why |-> "ok"]

\* a loop that goes on to the next URL after a success
AfterUrl_continue(ok) == "dl_url"

\* the match of the URL loop: `Ok(_) => return Ok(())`, `Err(e) => last_error = Some(e)`
AfterUrl(ok) == IF ok THEN "g_load" ELSE "dl_url"

\* the scenarios: the default database list with the URL list under test,
\* a custom path under the canonical name or under the alias, a requested
\* name that is canonical, an alias or not listed
Outcomes == {"ok", "send_err", "chunk_err"}

UrlLists ==
    UNION {[1..n -> [is_7z : BOOLEAN, outcome : Outcomes]] : n \in 0..MaxUrls}

DlConfig(urls, keys) ==
    [databases |->
        <<[name |-> "qqwry", name_alias |-> {"chunzhen"}, file |-> "qqwry.dat",
           download_urls |-> urls],
          [name |-> "zxipv6wry", name_alias |-> {"zxipv6"}, file |-> "zxipv6wry.db",
           download_urls |-> urls],
          [name |-> "cdn", name_alias |-> {}, file |-> "cdn.yml",
           download_urls |-> urls]>>,
     database_paths |-> [k \in keys |-> k]]

DlNames == {"qqwry", "chunzhen", "zxipv6wry", "zxipv6", "cdn", "ipip"}

DlIdle == [dest |-> <<>>, i |-> 0, last_error |-> None, contacted |-> <<>>, opened |-> <<>>]

InitD ==
    /\ \E urls \in UrlLists, keys \in {{}, {"qqwry"}, {"chunzhen"}}, name \in DlNames :
          ghost = [kind |-> "dl", name |-> name, config |-> DlConfig(urls, keys)]
    /\ data \in {{}, {database_file("qqwry.dat")}}
    /\ target = 0
    /\ build = "release"
    /\ pc = "start"
    /\ hdl = DlIdle
    /\ sres = <<>>
    /\ res = None
    /\ MIdle

\* get_or_load_database from the path lookup to the start of the download
EnsureFile ==
    /\ pc = "start"
    /\ LET db_path == get_database_path(ghost.config, ghost.name)
           info == FindInfo(ghost.config, ghost.name)
       IN  /\ sres' = db_path
           /\ IF db_path \in data
              THEN pc' = "g_load" /\ res' = res
              ELSE IF info.kind = "some" /\ info.db.download_urls # <<>>
              THEN pc' = "dl_begin" /\ res' = res
              ELSE pc' = "done" /\ res' = [kind |-> "err", at |-> "notfound"]
    /\ UNCHANGED <<data, target, build, hdl, ghost>>
    /\ UNCHANGED mvars

\* download_database up to the URL loop
DownloadBegin ==
    /\ pc = "dl_begin"
    /\ LET info == FindInfo(ghost.config, ghost.name)
       IN  IF info.kind # "some"
           THEN /\ pc' = "done" /\ hdl' = hdl
                /\ res' = [kind |-> "err", at |-> "notfound"]
           ELSE IF info.db.download_urls = <<>>
           THEN /\ pc' = "done" /\ hdl' = hdl
                /\ res' = [kind |-> "err", at |-> "download"]
           ELSE /\ hdl' = [hdl EXCEPT !.dest = get_database_path(ghost.config, info.db.name),
                                      !.i = 1]
                /\ pc' = IF ghost.name = "cdn" THEN "dl_cdn" ELSE "dl_url"
                /\ res' = res
    /\ UNCHANGED <<data, target, build, sres, ghost>>
    /\ UNCHANGED mvars

\* one turn of `for url in &db_info.download_urls`
TryUrl ==
    /\ pc = "dl_url"
    /\ LET urls == FindInfo(ghost.config, ghost.name).db.download_urls
       IN  /\ hdl.i <= Len(urls)
           /\ LET url == urls[hdl.i]
                  r == try_download_and_extract(data, url, hdl.dest, ghost.name, url.outcome)
              IN  /\ data' = r.fs
                  /\ pc' = AfterUrl(r.ok)
                  /\ hdl' = [hdl EXCEPT !.i = @ + 1,
                                        !.contacted = Append(@, hdl.i),
                                        !.last_error =
                                            IF r.ok THEN @
                                            ELSE [kind |-> "err", at |-> "download",
                                                  url |-> hdl.i, why |-> r.why]]
    /\ UNCHANGED <<target, build, sres, res, ghost>>
    /\ UNCHANGED mvars

\* the end of the URL loop: Err(last_error), which the manager returns
AllFailed ==
    /\ pc = "dl_url"
    /\ hdl.i > Len(FindInfo(ghost.config, ghost.name).db.download_urls)
    /\ pc' = "done"
    /\ res' = IF hdl.last_error = None THEN [kind |-> "err", at |-> "download"]
              ELSE hdl.last_error
    /\ UNCHANGED <<data, target, build, hdl, sres, ghost>>
    /\ UNCHANGED mvars

\* download_and_merge_cdn: every source is asked, one success is enough
MergeCdn ==
    /\ pc = "dl_cdn"
    /\ LET urls == FindInfo(ghost.config, ghost.name).db.download_urls
           success_count == Cardinality({i \in 1..Len(urls) : urls[i].outcome = "ok"})
       IN  /\ hdl' = [hdl EXCEPT !.contacted = [i \in 1..Len(urls) |-> i],
                                 !.i = Len(urls) + 1]
           /\ IF success_count = 0
              THEN /\ pc' = "done" /\ data' = data
                   /\ res' = [kind |-> "err", at |-> "download"]
              ELSE /\ pc' = "g_load" /\ data' = data \cup {hdl.dest}
                   /\ res' = res
    /\ UNCHANGED <<target, build, sres, ghost>>
    /\ UNCHANGED mvars

\* db.load_from_file(db_path): the open of the path the manager resolved
OpenFile ==
    /\ pc = "g_load"
    /\ hdl' = [hdl EXCEPT !.opened = sres]
    /\ res' = IF sres \in data THEN [kind |-> "ok"] ELSE [kind |-> "err", at |-> "load"]
    /\ pc' = "done"
    /\ UNCHANGED <<data, target, build, sres, ghost>>
    /\ UNCHANGED mvars

NextD == EnsureFile \/ DownloadBegin \/ TryUrl \/ AllFailed \/ MergeCdn \/ OpenFile

SpecD == InitD /\ [][NextD]_vars

(***************************************************************************)
(* Entities (entity/parser.rs, entity/types.rs): parse_line and            *)
(* build_complete_entities.  A line is the sequence of its characters; a   *)
(* location is a pair of offsets <<start, end>>.  The matches of the three *)
(* regular expressions are inputs: what Regex::find_iter yields, spans in  *)
(* ascending order that are not empty and do not overlap.                  *)
(***************************************************************************)
MaxLine == 4

MaxMatches == 1

Entity(start, end, type, text) ==
    [location |-> <<start, end>>, entity_type |-> type, text |-> text]

\* &text[a..b]: the slice panics unless a <= b <= len
Slice(text, a, b) ==
    IF a <= b /\ b <= Len(text)
    THEN [kind |-> "ok", val |-> SubSeq(text, a + 1, b)]
    ELSE Panic

\* the place of e in a list sorted by start: behind every entity that does
\* not start later (sort_by_key is stable)
RECURSIVE InsertByStart(_, _)
InsertByStart(sorted, e) ==
    IF sorted = <<>> THEN <<e>>
    ELSE IF sorted[Len(sorted)].location[1] <= e.location[1]
    THEN Append(sorted, e)
    ELSE Append(InsertByStart(SubSeq(sorted, 1, Len(sorted) - 1), e),
                sorted[Len(sorted)])

\* Entities::sort_by_position
RECURSIVE sort_by_position(_)
sort_by_position(es) ==
    IF es = <<>> THEN <<>>
    ELSE InsertByStart(sort_by_position(SubSeq(es, 1, Len(es) - 1)), es[Len(es)])

\* Vec::remove(j), indices from 1
RemoveAt(es, j) == SubSeq(es, 1, j - 1) \o SubSeq(es, j + 1, Len(es))

\* the inner loop of remove_overlaps: `while j < len`
RECURSIVE OverlapInner(_, _, _)
OverlapInner(es, i, j) ==
    IF j > Len(es) THEN es
    ELSE IF es[j].location[1] < es[i].location[2]
    THEN OverlapInner(RemoveAt(es, j), i, j)
    ELSE OverlapInner(es, i, j + 1)

\* the outer loop of remove_overlaps: `while i < len`
RECURSIVE OverlapOuter(_, _)
OverlapOuter(es, i) ==
    IF i > Len(es) THEN es
    ELSE OverlapOuter(OverlapInner(es, i, i + 1), i + 1)

\* Entities::remove_overlaps
remove_overlaps(es) == OverlapOuter(sort_by_position(es), 1)

\* the entity of each match, in the order of the matches
EntitiesOf(text, spans, type) ==
    [k \in 1..Len(spans) |->
        Entity(spans[k][1], spans[k][2], type, SubSeq(text, spans[k][1] + 1, spans[k][2]))]

\* the domain matches parse_line keeps: those no IPv4 entity contains
RECURSIVE KeptDomains(_, _)
KeptDomains(ipv4s, doms) ==
    IF doms = <<>> THEN <<>>
    ELSE LET d == doms[1]
             inside == \E k \in 1..Len(ipv4s) :
                          /\ ipv4s[k].location[1] <= d.location[1]
                          /\ ipv4s[k].location[2] >= d.location[2]
         IN  (IF inside THEN <<>> ELSE <<d>>) \o KeptDomains(ipv4s, Tail(doms))

\* parse_line, given the matches of the three expressions
parse_line(text, ipv4, ipv6, domains) ==
    LET v4 == EntitiesOf(text, ipv4, "IPv4")
        v6 == EntitiesOf(text, ipv6, "IPv6")
        dm == KeptDomains(v4, EntitiesOf(text, domains, "Domain"))
    IN  sort_by_position(remove_overlaps(v4 \o v6 \o dm))

\* the loop of build_complete_entities over the sorted entities
RECURSIVE FillGaps(_, _, _, _)
FillGaps(text, es, last_pos, complete) ==
    IF es = <<>>
    THEN IF last_pos < Len(text)
         THEN LET s == Slice(text, last_pos, Len(text))
              IN  IF s.kind # "ok" THEN Panic
                  ELSE [kind |-> "ok",
                        val |-> Append(complete,
                                       Entity(last_pos, Len(text), "Plain", s.val))]
         ELSE [kind |-> "ok", val |-> complete]
    ELSE LET start == es[1].location[1]
             end == es[1].location[2]
         IN  IF start > last_pos
             THEN LET s == Slice(text, last_pos, start)
                  IN  IF s.kind # "ok" THEN Panic
                      ELSE FillGaps(text, Tail(es), end,
                                    complete \o <<Entity(last_pos, start, "Plain", s.val),
                                                  es[1]>>)
             ELSE FillGaps(text, Tail(es), end, Append(complete, es[1]))

\* a build_complete_entities that fills no gap
build_complete_entities_bare(text, entities) ==
    [kind |-> "ok", val |-> sort_by_position(entities)]

\* build_complete_entities
build_complete_entities(text, entities) ==
    IF entities = <<>>
    THEN [kind |-> "ok", val |-> <<Entity(0, Len(text), "Plain", text)>>]
    ELSE FillGaps(text, sort_by_position(entities), 0, <<>>)

\* the scenarios: a window of the sample line, and for each expression any
\* matches find_iter can yield on a line of that length
Sample == <<"8", ".", "4", " ", "a", ".", "i", "o">>

Lines ==
    {SubSeq(Sample, k + 1, k + n) : k \in 0..(Len(Sample) - MaxLine), n \in 0..MaxLine}

Spans(n) == {sp \in (0..n) \X (0..n) : sp[1] < sp[2]}

Matches(n) ==
    {m \in UNION {[1..c -> Spans(n)] : c \in 0..MaxMatches} :
        \A k \in 1..(Len(m) - 1) : m[k][2] <= m[k + 1][1]}

InitE ==
    /\ data \in Lines
    /\ \E ipv4 \in Matches(Len(data)), ipv6 \in Matches(Len(data)),
          domains \in Matches(Len(data)) :
          ghost = [kind |-> "ent", ipv4 |-> ipv4, ipv6 |-> ipv6, domains |-> domains]
    /\ target = 0
    /\ build = "release"
    /\ pc = "start"
    /\ hdl = <<>>
    /\ sres = None
    /\ res = None
    /\ MIdle

\* parse_line(text)
ParseLine ==
    /\ pc = "start"
    /\ hdl' = parse_line(data, ghost.ipv4, ghost.ipv6, ghost.domains)
    /\ pc' = "parsed"
    /\ UNCHANGED <<data, target, build, sres, res, ghost>>
    /\ UNCHANGED mvars

\* build_complete_entities(text, entities)
BuildComplete ==
    /\ pc = "parsed"
    /\ res' = build_complete_entities(data, hdl)
    /\ pc' = "built"
    /\ UNCHANGED <<data, target, build, hdl, sres, ghost>>
    /\ UNCHANGED mvars

NextE == ParseLine \/ BuildComplete

SpecE == InitE /\ [][NextE]_vars

(***************************************************************************)
(* Search scenarios: files load_from_file accepts whose header declares an *)
(* index end that is not a whole number of entries behind the start, and   *)
(* FormatB files whose header declares other field widths than 8 and 3.    *)
(***************************************************************************)
\* the distance idx_end - idx_start of the QQwry header
Strides == 1..15

\* (off_len, ip_len) of the ZX header
ZXWidths == {<<3, 8>>, <<4, 8>>, <<2, 8>>, <<3, 4>>, <<0, 0>>, <<128, 128>>}

InitT ==
    /\ \/ \E keys \in [1..3 -> Keys] : \E span \in Strides :
            /\ \A i \in 1..2 : BLess(keys[i], keys[i + 1])
            /\ ghost = [kind |-> "term", fmt |-> "qqwry", span |-> span,
                        off_len |-> 3, ip_len |-> 4]
            /\ data = EncLimbs(<<8, 0>>) \o EncLimbs(<<8 + span, 0>>)
                        \o SubSeq(QQwryFile(8, keys, <<101, 102, 103>>, Zeros(7)), 9, 36)
            /\ hdl = QQwryDatabase_new
            /\ target \in Targets
       \/ \E keys \in [1..2 -> ZXKeys] : \E w \in ZXWidths :
            /\ BLess(keys[1], keys[2])
            /\ ghost = [kind |-> "term", fmt |-> "zxipv6", span |-> 2 * ZX_STRIDE,
                        off_len |-> w[1], ip_len |-> w[2]]
            /\ data = [ZXFile(keys, <<101, 102>>, 3, Zeros(11))
                          EXCEPT ![7] = w[1], ![8] = w[2]]
            /\ hdl = ZXIPv6Database_new
            /\ target \in ZXTargets
    /\ build \in Builds
    /\ pc = "start"
    /\ sres = None
    /\ res = None
    /\ MIdle

NextT == QQwryLoad \/ QQwryLookup \/ ZXLoad \/ ZXSearchIndex

SpecT == InitT /\ [][NextT]_vars

(***************************************************************************)
(* Helpers of the claims: the C string at an offset, read off the buffer   *)
(* without the Reader.                                                     *)
(***************************************************************************)
HasNul(d, s) == \E e \in s..(Len(d) - 1) : ByteAt(d, e) = 0

CStr(d, s) ==
    LET e == CHOOSE e \in s..(Len(d) - 1) :
                 ByteAt(d, e) = 0 /\ \A j \in s..(e - 1) : ByteAt(d, j) # 0
    IN  SubSeq(d, s + 1, e)

IsLiteralAt(d, t) ==
    InBounds(d, t, 1) /\ ByteAt(d, t) \notin {REDIRECT_MODE_1, REDIRECT_MODE_2}

Mode1ToLiteral(d, o) ==
    /\ InBounds(d, o, 4)
    /\ ByteAt(d, o) = REDIRECT_MODE_1
    /\ IsLiteralAt(d, bytes3_to_u32(d, o + 1))

\* C9: a mode-1 record whose offset points at a literal record decodes to
\* exactly what parse returns when called at that literal record's offset.
C9_Mode1SameAsDirect ==
    (pc = "parsed" /\ Mode1ToLiteral(data, target))
        => res = parse(data, bytes3_to_u32(data, target + 1))

C9_Witness ==
    /\ pc = "parsed"
    /\ Mode1ToLiteral(data, target)
    /\ res.kind = "ok"
    /\ res.country # <<>>
    /\ res.area # <<>>

Mode2XY(d, o) ==
    /\ InBounds(d, o, 5)
    /\ ByteAt(d, o) = REDIRECT_MODE_2
    /\ InBounds(d, bytes3_to_u32(d, o + 1), 1)
    /\ HasNul(d, bytes3_to_u32(d, o + 1))
    /\ IsLiteralAt(d, o + 4)
    /\ HasNul(d, o + 4)

\* C10: a mode-2 record (offset to the string X, then the literal string Y
\* right after the offset field) decodes to country = X and area = Y.
C10_Mode2CountryArea ==
    (pc = "parsed" /\ Mode2XY(data, target))
        => /\ res.kind = "ok"
           /\ res.country = CStr(data, bytes3_to_u32(data, target + 1))
           /\ res.area = CStr(data, target + 4)

C10_Witness ==
    /\ pc = "parsed"
    /\ Mode2XY(data, target)
    /\ res.kind = "ok"
    /\ res.country # <<>>
    /\ res.area # <<>>
    /\ res.country # res.area

NonDecreasing(keys) ==
    \A i \in 1..(Len(keys) - 1) : BLeq(keys[i], keys[i + 1])

\* entry i holds the greatest key <= t
GreatestLeq(keys, i, t) ==
    /\ BLeq(keys[i], t)
    /\ \A j \in 1..Len(keys) : BLeq(keys[j], t) => BLeq(keys[j], keys[i])

\* C1: on a loaded QQwry file whose index keys ascend, search_index of a
\* target >= the first key returns the 3-byte payload of an entry holding
\* the greatest key <= target.
C1_GreatestKeyLeq ==
    (/\ pc = "done"
     /\ ghost.kind = "idx"
     /\ NonDecreasing(ghost.keys)
     /\ BLeq(ghost.keys[1], target))
        => /\ sres.kind = "ok"
           /\ \E i \in 1..Len(ghost.keys) :
                 /\ GreatestLeq(ghost.keys, i, target)
                 /\ sres.val = ghost.pays[i]
                 /\ sres.pos = ghost.idx_start + ENTRY_LEN * (i - 1)

C1_Witness ==
    /\ pc = "done"
    /\ ghost.kind = "idx"
    /\ Len(ghost.keys) = 4
    /\ NonDecreasing(ghost.keys)
    /\ BLess(ghost.keys[2], target)
    /\ BLess(target, ghost.keys[4])
    /\ sres.kind = "ok"
    /\ sres.val = ghost.pays[3]

\* C3: a QQwry lookup on a loaded file never aborts: an offset outside the
\* buffer, or a string that runs to the end of the buffer without a
\* terminator, ends the lookup with an error value.
C3_LookupBoundsError ==
    pc = "done"
        => /\ res.kind # "panic"
           /\ (res.kind = "some" => ~res.raw.eof)

\* C4: a file shorter than the index end its header declares is refused by
\* load_from_file of each format: the load returns an error and the handle
\* stays not loaded.
C4_TruncatedLoadFails ==
    (ghost.kind = "load" /\ pc \in {"loaded", "rejected"} /\ ghost.truncated)
        => (res.kind = "err" /\ ~hdl.loaded)

Containing(recs, ip) ==
    {i \in 1..Len(recs) : BLeq(recs[i].start_ip, ip) /\ BLeq(ip, recs[i].end_ip)}

\* C2: on a loaded IPIP file of sorted, disjoint records the IPv4 lookup
\* returns the record that contains the target, and not-found only when no
\* record contains it.
C2_UniqueContainingRecord ==
    (ghost.kind = "ipip" /\ pc = "done")
        => IF Containing(ghost.recs, target) = {}
           THEN res.kind = "notfound"
           ELSE /\ res.kind = "some"
                /\ \E i \in Containing(ghost.recs, target) :
                      /\ res.rec.start_ip = ghost.recs[i].start_ip
                      /\ res.rec.end_ip = ghost.recs[i].end_ip
                      /\ res.at = 16 * i

HandlesOf(n) == {p \in databases : p[1] = n}

\* C5 as stated: once a handle is in the map for a name, the map keeps that
\* very handle and load_from_file is not run for the name again.
C5_HandleNeverReplaced ==
    [][\A n \in DbNames :
          contains_key(databases, n)
              => /\ contains_key(databases', n)
                 /\ get(databases', n) = get(databases, n)
                 /\ hist'.loads[n] = hist.loads[n]]_vars

\* C5 as amended: a name never has two handles and never loses its handle;
\* a load or a replacement after the first insertion is the work of a
\* caller whose contains_key check ran while the map had no handle for the
\* name.
C5_HandleReplacedOnlyByRacingLoader ==
    /\ [](\A n \in DbNames : Cardinality(HandlesOf(n)) <= 1)
    /\ [][\A n \in DbNames :
             contains_key(databases, n)
                 => /\ contains_key(databases', n)
                    /\ (get(databases', n) # get(databases, n)
                            \/ hist'.loads[n] # hist.loads[n])
                         => \E t \in Threads :
                               /\ th'[t] # th[t]
                               /\ th[t].name = n
                               /\ th[t].sawEmpty]_vars

C5_Witness ==
    \E t \in Threads : \E u \in Threads \ {t} :
        /\ th[t].wroteDbs /\ th[u].wroteDbs
        /\ th[t].name = th[u].name
        /\ get(databases, th[t].name) = th[u].mine

SlowSteps == {"g_exists", "dl_send", "dl_create", "dl_chunk", "g_load"}

\* C6 as stated: a caller about to check the file, download, load or look
\* up holds neither the handle-map lock nor the query-cache lock.
C6_NoLockDuringSlowSteps ==
    \A t \in Threads :
        th[t].pc \in SlowSteps \cup {"l_lookup"}
            => ~Holds(dbs_lock, t) /\ ~Holds(cache_lock, t)

\* C6 as amended: no lock is held during the file check, the download and
\* load_from_file; during lookup_ip / lookup_cdn the caller holds the
\* handle-map lock in read mode, nobody holds it in write mode, and the
\* caller does not hold the query-cache lock.
C6_OnlyReadGuardDuringLookup ==
    \A t \in Threads :
        /\ th[t].pc \in SlowSteps => ~Holds(dbs_lock, t) /\ ~Holds(cache_lock, t)
        /\ th[t].pc = "l_lookup"
              => /\ t \in dbs_lock.readers
                 /\ dbs_lock.writer = NoThread
                 /\ ~Holds(cache_lock, t)

C6_Witness ==
    \E t \in Threads : \E u \in Threads \ {t} :
        /\ th[t].pc = "l_lookup" /\ t \in dbs_lock.readers
        /\ th[u].pc = "g_load"

\* C7: once a call has obtained Ok(r) for an input, the query cache holds r
\* under the input's key, and a call begun after that (and before
\* clear_cache) answers r from the cache, without loading or looking up.
C7_CachedResultIsStable ==
    /\ \A p \in hist.settled :
          contains_key(query_cache, p[1]) /\ get(query_cache, p[1]) = p[2]
    /\ \A t \in Threads :
          th[t].basis.kind # "none"
              => /\ th[t].pc \in {"q_cache_rd", "q_cache_chk", "ret"}
                 /\ th[t].pc = "ret" => th[t].r = th[t].basis

C11_RoundTripExact ==
    (ghost.kind = "rt" /\ pc = "done")
        => /\ res.kind = "some"
           /\ res.country = Opt(Remove(ghost.country, CZ88))
           /\ res.isp = Opt(Remove(ghost.area, CZ88))

StartsLiteral(t) == t = <<>> \/ t[1] \notin {REDIRECT_MODE_1, REDIRECT_MODE_2}

\* C11 as amended: when neither text begins with a redirect-mode byte, the
\* lookup returns the stored country and area with the token removed and
\* the surrounding whitespace trimmed, unset when nothing is left.
C11_RoundTripTrimmed ==
    (ghost.kind = "rt" /\ pc = "done"
        /\ StartsLiteral(ghost.country) /\ StartsLiteral(ghost.area))
        => /\ res.kind = "some"
           /\ res.country = Opt(Trim(Remove(ghost.country, CZ88)))
           /\ res.isp = Opt(Trim(Remove(ghost.area, CZ88)))

C11_Witness ==
    /\ ghost.kind = "rt" /\ pc = "done"
    /\ ghost.country = <<45502>> \o CZ88
    /\ ghost.area = CZ88 \o <<65>>
    /\ res.kind = "some"
    /\ res.country = <<(<<45502>>)>>
    /\ res.isp = <<(<<65>>)>>

SlotYields ==
    /\ Len(data) >= 22
    /\ \/ BLess(target, u32_from_le_bytes(data, 15))
       \/ bytes3_to_u32(data, 19) = ghost.X

C13_ZXGreatestKeyLeq ==
    (/\ pc = "done"
     /\ ghost.kind = "zx"
     /\ BLeq(ghost.keys[1], target))
        => /\ sres.kind = "ok"
           /\ \E i \in 1..Len(ghost.keys) :
                 /\ GreatestLeq(ghost.keys, i, target)
                 /\ sres.val = ghost.pays[i]

OnlyWildcardLoaded ==
    /\ ghost.kind = "cdn" /\ pc = "done"
    /\ Len(data) = 1 /\ data[1].pattern = P_wild

Found(r, name) == r.kind = "ok" /\ r.val.kind = "some" /\ r.val.provider = name

NotFound(r) == r.kind = "ok" /\ r.val = None

\* C14 as stated: with the single pattern "*.example.com" loaded, lookup_cdn
\* finds the provider for "foo.example.com" and for "example.com" and
\* returns not-found for "exampleXcom".
C14_WildcardMatchesBase ==
    OnlyWildcardLoaded
        => /\ target \in {D_foo, D_base} => Found(res, "first")
           /\ target = D_x => NotFound(res)

\* C14 as amended: the provider is found for "foo.example.com"; for
\* "example.com" and for "exampleXcom" the answer is not-found.
C14_WildcardNeedsSubdomain ==
    OnlyWildcardLoaded
        => /\ target = D_foo => Found(res, "first") /\ res.val.domain = D_foo
           /\ target \in {D_base, D_x} => NotFound(res)

C14_Witness ==
    /\ OnlyWildcardLoaded
    /\ target = D_foo
    /\ Found(res, "first")
    /\ hdl.exact_matches = {}
    /\ Len(hdl.regex_matches) = 1

\* the lowercased last two labels of a domain, joined by a dot
LastTwoLabels(d) ==
    LET parts == split(to_lowercase(d), ".")
    IN  join(SubSeq(parts, Len(parts) - 1, Len(parts)), ".")

NoPatternMatches(h, d) ==
    \A i \in 1..Len(h.regex_matches) : ~is_match(h.regex_matches[i].regex, to_lowercase(d))

\* C15: for a queried domain of two labels or more, when its lowercased
\* last two labels are a key of the exact map and the full lowercased
\* domain is not, lookup_cdn returns that key's provider; when neither is a
\* key and no pattern of the regex list matches, it returns not-found.
C15_BaseDomainFallback ==
    (ghost.kind = "cdn" /\ pc = "done" /\ Len(split(target, ".")) >= 2)
        => /\ (/\ contains_key(hdl.exact_matches, LastTwoLabels(target))
               /\ ~contains_key(hdl.exact_matches, to_lowercase(target)))
                 => /\ Found(res, get(hdl.exact_matches, LastTwoLabels(target)).name)
                    /\ res.val.domain = target
                    /\ \E i \in 1..Len(data) :
                          /\ to_lowercase(data[i].pattern) = LastTwoLabels(target)
                          /\ data[i].entry.name = res.val.provider
           /\ (/\ ~contains_key(hdl.exact_matches, LastTwoLabels(target))
               /\ ~contains_key(hdl.exact_matches, to_lowercase(target))
               /\ NoPatternMatches(hdl, target))
                 => NotFound(res)

C15_Witness ==
    /\ ghost.kind = "cdn" /\ pc = "done"
    /\ target = D_akamai
    /\ contains_key(hdl.exact_matches, P_akamai)
    /\ ~contains_key(hdl.exact_matches, D_akamai)
    /\ Len(hdl.regex_matches) = 1
    /\ Found(res, "second")

\* the pairs of the source whose pattern compiles and matches the domain
MatchingPairs(src, d) ==
    {i \in 1..Len(src) :
        /\ IsWildcard(src[i].pattern) \/ IsRegex(src[i].pattern)
        /\ Regex_new(RegexSource(src[i].pattern)).kind = "ok"
        /\ is_match(Regex_new(RegexSource(src[i].pattern)).re, to_lowercase(d))}

\* C16: when two or more patterns of the source match the queried domain
\* and no exact or base-domain key does, lookup_cdn returns the entry of
\* the matching pattern that comes first in the source mapping.
C16_FirstInSourceWins ==
    (/\ ghost.kind = "cdn" /\ pc = "done"
     /\ \A i \in 1..Len(extract_base_domain(target)) :
           ~contains_key(hdl.exact_matches, extract_base_domain(target)[i])
     /\ Cardinality(MatchingPairs(data, target)) >= 2)
        => Found(res, data[CHOOSE i \in MatchingPairs(data, target) :
                              \A j \in MatchingPairs(data, target) : i <= j].entry.name)

CdnLoaded == ghost.kind = "cdn" /\ pc \in {"loaded", "done"}

StoredExact(h, pattern) == contains_key(h.exact_matches, to_lowercase(pattern))

StoredRegex(h, pattern) ==
    \E j \in 1..Len(h.regex_matches) : h.regex_matches[j].regex.src = RegexSource(pattern)

PlainKey(pattern) == ~IsWildcard(pattern) /\ ~IsRegex(pattern)

\* C17 as stated: after parse_yaml every pattern key of the source is
\* stored in exactly one of the exact map and the regex list, and a key
\* with none of * ? [ + ( { is stored in the exact map only.
C17_EveryKeyStoredOnce ==
    CdnLoaded
        => \A i \in 1..Len(data) :
              /\ StoredExact(hdl, data[i].pattern) # StoredRegex(hdl, data[i].pattern)
              /\ PlainKey(data[i].pattern)
                    => StoredExact(hdl, data[i].pattern) /\ ~StoredRegex(hdl, data[i].pattern)

Compiles(pattern) == Regex_new(RegexSource(pattern)).kind = "ok"

KeysStoredAtMostOnce ==
    CdnLoaded
        => \A i \in 1..Len(data) :
              /\ ~(StoredExact(hdl, data[i].pattern) /\ StoredRegex(hdl, data[i].pattern))
              /\ PlainKey(data[i].pattern) => StoredExact(hdl, data[i].pattern)
              /\ ~PlainKey(data[i].pattern)
                    => (StoredRegex(hdl, data[i].pattern) <=> Compiles(data[i].pattern))

\* C17 as amended: after parse_yaml every pattern key is stored in at most
\* one of the exact map and the regex list: a key with none of * ? [ + ( {
\* in the exact map (lowercased) and not in the regex list, any other key
\* in the regex list when it compiles and in neither when it does not; a
\* lookup changes neither store.
C17_KeysClassifiedOnce ==
    /\ []KeysStoredAtMostOnce
    /\ [][CdnLoaded => (hdl'.exact_matches = hdl.exact_matches
                        /\ hdl'.regex_matches = hdl.regex_matches)]_vars

C17_Witness ==
    /\ CdnLoaded /\ pc = "done"
    /\ Len(data) = 2
    /\ data[1].pattern = P_bad
    /\ data[2].pattern = P_upper
    /\ hdl.regex_matches = <<>>
    /\ contains_key(hdl.exact_matches, P_exact)
    /\ target = D_foo
    /\ Found(res, "second")

\* the steps of get_or_load_database after the contains_key check
LoadPath == {"g_exists", "dl_send", "dl_create", "dl_chunk", "g_load", "g_wr", "g_ins"}

OnlyMissersLoad ==
    pc = "manager" => \A t \in Threads : th[t].pc \in LoadPath => th[t].sawEmpty

\* C18: a get_or_load_database call that finds the handle of its name in
\* the map (an earlier call for the name succeeded) returns Ok at once: it
\* does not check the file, download or run load_from_file, and the map
\* keeps the handle it held.
C18_SecondCallReturnsAtOnce ==
    /\ []OnlyMissersLoad
    /\ [][\A t \in Threads :
             (/\ pc = "manager"
              /\ th[t].pc = "g_chk" /\ th'[t].pc # "g_chk"
              /\ contains_key(databases, th[t].name))
                => /\ th'[t].pc = "l_rd"
                   /\ databases' = databases
                   /\ files' = files
                   /\ hist'.loads = hist.loads]_vars

C18_Witness ==
    /\ pc = "manager"
    /\ \E t \in Threads :
          /\ th[t].pc = "l_rd" /\ ~th[t].sawEmpty /\ ~th[t].wroteDbs
          /\ contains_key(databases, th[t].name)
          /\ hist.loads[th[t].name] = 1
          /\ \A u \in Threads \ {t} : th[u].pc = "idle"

NoSourceFor(t) ==
    /\ ~files[th[t].name].exists
    /\ th[t].name \notin cfg.databases \/ th[t].name \notin cfg.download_urls

NotFoundWithoutDownload ==
    pc = "manager"
        => \A t \in Threads :
              /\ th[t].pc \in {"dl_send", "dl_create", "dl_chunk"}
                    => th[t].name \in cfg.databases \cap cfg.download_urls
              /\ (th[t].pc = "ret" /\ th[t].r = [kind |-> "err", at |-> "notfound"])
                    => ~th[t].wroteDbs /\ NoSourceFor(t)

\* C20: when the file of a name is missing and the name has no download
\* source (no entry in the database list, or an entry without URLs),
\* get_or_load_database returns DatabaseNotFound: the downloader is not
\* invoked and no handle is inserted.
C20_MissingFileNoSource ==
    /\ []NotFoundWithoutDownload
    /\ [][\A t \in Threads :
             (/\ pc = "manager"
              /\ th[t].pc = "g_exists" /\ th'[t].pc # "g_exists"
              /\ NoSourceFor(t))
                => /\ th'[t].pc = "ret"
                   /\ th'[t].r = [kind |-> "err", at |-> "notfound"]
                   /\ databases' = databases
                   /\ files' = files]_vars

C20_Witness ==
    /\ pc = "manager"
    /\ \E t \in Threads :
          /\ th[t].pc = "ret"
          /\ th[t].r = [kind |-> "err", at |-> "notfound"]
          /\ th[t].name = "geoip"
          /\ "geoip" \notin cfg.databases
          /\ ~contains_key(databases, "geoip")

\* what one caller alone gets: the lookup through a handle loaded from the
\* whole file
SequentialAnswer(inp) ==
    LET whole == [exists |-> TRUE, bytes |-> IPIPContent, kind |-> "good"]
    IN  lookup(load_from_file("IPIP", whole).h, whole, inp)

\* C19: whatever the interleaving of two callers that need the same
\* database, no call crashes, the map holds at most one handle for the name
\* and each caller's lookup gives what a caller alone would get.
C19_RacingLoadersAgree ==
    pc = "manager"
        => /\ ~hist.crashed
           /\ \A n \in DbNames : Cardinality(HandlesOf(n)) <= 1
           /\ \A t \in Threads :
                 (th[t].name = "ipip" /\ th[t].pc \in {"c_wr", "c_ins"})
                     => th[t].r = SequentialAnswer(th[t].inp)

\* C21: when the download inside get_or_load_database has put a file in place
\* and load_from_file then rejects it, the call returns that load error at
\* once: the caller inserts no handle, the file stays as it is, and the
\* caller does not go back to the download.
Provisioned(t) == th[t].off = Len(IPIPContent)

LoadFailed(t) ==
    /\ th[t].pc = "ret"
    /\ th[t].r.kind = "err"
    /\ th[t].r.at = "load"

C21_FailedLoadStep ==
    \A t \in Threads :
        (th[t].pc = "g_load" /\ Provisioned(t) /\ th'[t].pc # "g_load"
            /\ th'[t].pc # "g_wr" /\ th'[t].pc # "aborted")
        => /\ th'[t].pc = "ret"
           /\ th'[t].r.kind = "err"
           /\ th'[t].r.at = "load"
           /\ ~th'[t].wroteDbs
           /\ databases' = databases
           /\ files' = files

C21_LoadErrorReturned ==
    /\ [](\A t \in Threads : LoadFailed(t) => ~th[t].wroteDbs)
    /\ [][C21_FailedLoadStep]_vars

C21_Witness == \E t \in Threads : LoadFailed(t) /\ Provisioned(t)

\* C22: whenever the download inside get_or_load_database succeeded, the path
\* the downloader wrote the database to is the path load_from_file opens,
\* whatever the requested name and the custom paths are.
Downloaded == hdl.dest # <<>> /\ hdl.opened # <<>>

C22_WrittenPathIsOpened == Downloaded => hdl.opened = hdl.dest

\* C30: download_database asks the URLs in list order; at the first URL that
\* succeeds it returns Ok and asks no later URL; it returns an error, that
\* of the last URL, only when every URL of the list failed.
UrlsOf == FindInfo(ghost.config, ghost.name).db.download_urls

UrlFails(i) ==
    \/ UrlsOf[i].outcome # "ok"
    \/ UrlsOf[i].is_7z /\ ghost.name \notin {"zxipv6wry", "zxipv6"}

InLoop == ghost.name # "cdn" /\ hdl.dest # <<>>

DownloadOk == pc = "g_load" \/ hdl.opened # <<>>

C30_FirstSuccessStops ==
    InLoop =>
        /\ hdl.contacted = [k \in 1..Len(hdl.contacted) |-> k]
        /\ Len(hdl.contacted) <= Len(UrlsOf)
        /\ \A k \in 1..Len(hdl.contacted) - 1 : UrlFails(k)
        /\ DownloadOk
            => /\ hdl.contacted # <<>>
               /\ ~UrlFails(Len(hdl.contacted))
        /\ pc = "done" /\ res.kind = "err" /\ res.at = "download"
            => /\ Len(hdl.contacted) = Len(UrlsOf)
               /\ \A k \in 1..Len(UrlsOf) : UrlFails(k)
               /\ res = hdl.last_error
               /\ res.url = Len(UrlsOf)
        /\ pc = "dl_url" => \A k \in 1..Len(hdl.contacted) : UrlFails(k)

C30_Witness ==
    /\ InLoop /\ pc = "done" /\ DownloadOk
    /\ Len(hdl.contacted) = 2 /\ Len(UrlsOf) = 3

C30_WitnessAllFailed ==
    /\ InLoop /\ pc = "done" /\ res.kind = "err" /\ Len(hdl.contacted) = 3

\* C23: an entry leaves the query cache only in the clear() of clear_cache:
\* no step of query_ip, query_cdn or cache_stats removes one; the clear()
\* empties the query cache and leaves the handle map as it is.
Clearing == \E t \in Threads : th[t].pc = "cc_clear" /\ th'[t].pc = "idle"

C23_OnlyClearRemoves ==
    /\ (\E p \in query_cache : ~contains_key(query_cache', p[1])) => Clearing
    /\ Clearing => query_cache' = {} /\ databases' = databases

C23_CacheLosesOnlyByClear == [][C23_OnlyClearRemoves]_vars

\* a clear() has emptied a filled cache while a handle is loaded, and
\* cache_stats then reports one database and no entry
C23_Witness ==
    \E t \in Threads :
        /\ th[t].pc = "cs_ret"
        /\ th[t].r.db_count = 1 /\ th[t].r.cache_count = 0
        /\ hist.loads["ipip"] > 0 /\ query_cache = {} /\ databases # {}

\* C24: the QQwry load_from_file loads no buffer shorter than 8 bytes, no
\* header with start >= end, and no buffer shorter than the mathematical sum
\* end + 7, also when that sum passes 2^32.
QQwryHeaderBad(d) ==
    \/ Len(d) < 8
    \/ ~BLess(u32_from_le_bytes(d, 0), u32_from_le_bytes(d, 4))
    \/ LET sum == BAdd(u32_from_le_bytes(d, 4), BOf(ENTRY_LEN, 2))
       IN  sum.over \/ ~BInBounds(d, sum.val, 0)

C24_NoWrapLetsLoad ==
    (ghost.kind = "load" /\ ghost.fmt = "qqwry" /\ pc \in {"loaded", "rejected"}
        /\ QQwryHeaderBad(data))
        => (res.kind # "ok" /\ ~hdl.loaded)

\* C26: on a loaded ZX IPv6 database two addresses with the same first 64
\* bits get the same lookup result, and the address of a returned record is
\* the queried prefix followed by 64 zero bits.
Prefix64(addr) == SubSeq(addr, 1, 8)

C26_SamePrefixStep ==
    (pc = "done" /\ pc' = "done" /\ Prefix64(target') = Prefix64(target))
        => res' = res

C26_PrefixDecides ==
    /\ []((ghost.kind = "zxl" /\ pc = "done" /\ res.kind = "some")
            => res.ip = Prefix64(target) \o [k \in 1..8 |-> 0])
    /\ [][C26_SamePrefixStep]_vars

C26_Witness ==
    /\ ghost.kind = "zxl" /\ pc = "done" /\ res.kind = "some"
    /\ target[16] = 255 /\ target[2] = 1
    /\ res.country # <<>> /\ res.isp # <<>>
    /\ Len(ghost.keys) = 3

\* C25: lookup_ip on a handle whose load_from_file has not succeeded returns
\* the NotLoaded error, not a record and not a not-found result.
C25_NotLoadedIsSurfaced ==
    (ghost.kind = "load" /\ pc = "probed")
        => (res.kind = "err" /\ res.at = "notloaded")

\* C27: on an accepted QQwry file whose index is a whole number of 7-byte
\* entries with keys in any order, search_index returns for every target:
\* it reads only bytes of the index region and its result is the payload of
\* one of the entries.
IndexRegion ==
    ghost.idx_start .. (ghost.idx_start + ENTRY_LEN * Len(ghost.keys) - 1)

Unsorted(keys) == \E i \in 1..(Len(keys) - 1) : BLess(keys[i + 1], keys[i])

C27_UnsortedIndexIsSafe ==
    (ghost.kind = "idx" /\ pc = "done")
        => /\ sres.kind = "ok"
           /\ sres.reads \subseteq IndexRegion
           /\ \E i \in 1..Len(ghost.keys) :
                 /\ sres.pos = ghost.idx_start + ENTRY_LEN * (i - 1)
                 /\ sres.val = ghost.pays[i]

C27_Witness ==
    /\ ghost.kind = "idx" /\ pc = "done"
    /\ Unsorted(ghost.keys) /\ Len(ghost.keys) = 4
    /\ sres.kind = "ok"
    /\ \E i \in 1..4 : ghost.keys[i] = target /\ sres.val # ghost.pays[i]

\* C28: when the lowercased domain is a key of the exact map, lookup_cdn
\* returns the entry of that key, whatever pattern of the regex list or
\* base-domain key matches too; when it is not and its last two labels are
\* a key, lookup_cdn returns the entry of that key, whatever pattern of the
\* regex list matches.
SomePatternMatches(h, d) == ~NoPatternMatches(h, d)

C28_ExactThenBaseThenRegex ==
    (ghost.kind = "cdn" /\ pc = "done")
        => /\ contains_key(hdl.exact_matches, to_lowercase(target))
                => Found(res, get(hdl.exact_matches, to_lowercase(target)).name)
           /\ (/\ ~contains_key(hdl.exact_matches, to_lowercase(target))
               /\ Len(split(target, ".")) >= 2
               /\ contains_key(hdl.exact_matches, LastTwoLabels(target)))
                => Found(res, get(hdl.exact_matches, LastTwoLabels(target)).name)

\* the exact key foo.example.com is hit while *.example.com matches as well
C28_Witness ==
    /\ ghost.kind = "cdn" /\ pc = "done"
    /\ target = D_upper
    /\ contains_key(hdl.exact_matches, D_foo)
    /\ SomePatternMatches(hdl, target)
    /\ Found(res, get(hdl.exact_matches, D_foo).name)

\* the base-domain key example.com is hit while *.example.com matches
C28_WitnessBase ==
    /\ ghost.kind = "cdn" /\ pc = "done"
    /\ target = D_foo
    /\ ~contains_key(hdl.exact_matches, D_foo)
    /\ contains_key(hdl.exact_matches, D_base)
    /\ SomePatternMatches(hdl, target)

\* the bytes from s up to the first zero byte, or up to the end of the
\* buffer when there is none
StrAt(d, s) ==
    LET e == CHOOSE e \in s..Len(d) :
                 /\ e = Len(d) \/ ByteAt(d, e) = 0
                 /\ \A j \in s..(e - 1) : ByteAt(d, j) # 0
    IN  SubSeq(d, s + 1, e)

\* C29: read_area at a mode byte 1 or 2 whose 3-byte offset is 0 yields the
\* empty area and reads no string at offset 0; with another offset it yields
\* the string at that offset; at any other byte it yields the string that
\* starts at that byte.  It fails only where the offset field or the offset
\* lies outside the buffer.
C29_AreaByMode ==
    pc = "area" =>
        IF ByteAt(data, target) \in {REDIRECT_MODE_1, REDIRECT_MODE_2}
        THEN IF ~InBounds(data, target + 1, 3) THEN ~res.ok
             ELSE LET offset == bytes3_to_u32(data, target + 1)
                  IN  IF offset = 0 THEN res.ok /\ res.val = <<>>
                      ELSE IF offset > Len(data) THEN ~res.ok
                      ELSE res.ok /\ res.val = StrAt(data, offset)
        ELSE res.ok /\ res.val = StrAt(data, target)

C29_Witness ==
    /\ pc = "area" /\ target = 1
    /\ ByteAt(data, 1) = REDIRECT_MODE_2
    /\ bytes3_to_u32(data, 2) = 0
    /\ StrAt(data, 0) # <<>>
    /\ res.ok /\ res.val = <<>>

C29_WitnessOffset ==
    /\ pc = "area"
    /\ ByteAt(data, target) = REDIRECT_MODE_1
    /\ bytes3_to_u32(data, target + 1) = 4
    /\ res.ok /\ Len(res.val) = 2

\* C31: for the entities parse_line returns on a line (sorted, not
\* overlapping, inside the line), build_complete_entities returns entities
\* whose texts, concatenated in order, are the line: the entities of
\* parse_line in their order, and a plain segment for every gap before,
\* between and after them.
TextsOf(es) == Concat([k \in 1..Len(es) |-> es[k].text])

Disjoint(es) ==
    /\ \A k \in 1..Len(es) :
          /\ es[k].location[1] < es[k].location[2]
          /\ es[k].location[2] <= Len(data)
    /\ \A k \in 1..(Len(es) - 1) : es[k].location[2] <= es[k + 1].location[1]

NotPlain(es) == SelectSeq(es, LAMBDA e : e.entity_type # "Plain")

C31_CompleteCoversLine ==
    /\ (ghost.kind = "ent" /\ pc # "start") => Disjoint(hdl)
    /\ (ghost.kind = "ent" /\ pc = "built")
        => /\ res.kind = "ok"
           /\ TextsOf(res.val) = data
           /\ NotPlain(res.val) = hdl
           /\ \A k \in 1..Len(res.val) :
                 /\ res.val[k].location[1] = (IF k = 1 THEN 0 ELSE res.val[k - 1].location[2])
                 /\ res.val[k].text
                      = SubSeq(data, res.val[k].location[1] + 1, res.val[k].location[2])
           /\ data # <<>> => res.val[Len(res.val)].location[2] = Len(data)

\* plain, entity, plain, entity on a line where one match was dropped as
\* overlapping
C31_Witness ==
    /\ ghost.kind = "ent" /\ pc = "built"
    /\ Len(data) = 4
    /\ Len(hdl) = 2
    /\ Len(ghost.ipv4) + Len(ghost.ipv6) + Len(ghost.domains) = 3
    /\ Len(res.val) = 4
    /\ res.val[1].entity_type = "Plain" /\ res.val[3].entity_type = "Plain"

\* C32: on every file load_from_file accepts, the loop of search_index
\* ends for every target key: with an index end that is not a whole number
\* of entries behind the start, and with ZX field widths whose sum is 0 or
\* is not 11.
C32_SearchTerminates ==
    (ghost.kind = "term" /\ pc = "done") => sres.kind # "diverge"

\* C33: Reader::parse ends on every buffer and every start offset; the
\* chain of mode-1 redirects it follows is finite, also where the offsets
\* form a cycle.
C33_ParseTerminates ==
    (ghost.kind = "none" /\ pc = "parsed") => res.kind # "diverge"

\* C34: after a successful ZX load every read of search_index (the key at
\* mid, the key at the right boundary r, the payload of the chosen entry)
\* lies inside the buffer, for every target, also in a file that ends at
\* the computed index end.  In these scenarios the search panics only on a
\* slice that leaves the buffer.
C34_ZXReadsInBuffer ==
    (ghost.kind = "zx" /\ pc = "done") => sres.kind # "panic"

\* C35: every handle in the handle map reports is_loaded() = true, and a
\* name for which get_or_load_database returned Ok is in the map from then
\* on, so query_ip and query_cdn never take the branch that answers
\* not-found for a missing handle.
AfterGetOrLoad(t) == th[t].pc \in {"l_rd", "l_lookup", "c_wr", "c_ins"}

HandlesLoaded ==
    /\ \A p \in databases : p[2].h.loaded
    /\ \A t \in Threads : AfterGetOrLoad(t) => contains_key(databases, th[t].name)

NamesStay ==
    \A n \in DbNames : contains_key(databases, n) => contains_key(databases', n)

C35_LoadedHandlesStay == [](pc = "manager" => HandlesLoaded) /\ [][pc = "manager" => NamesStay]_vars

\* a caller about to look up through a handle that another caller stored
C35_Witness ==
    /\ pc = "manager"
    /\ \E t \in Threads :
          /\ th[t].pc = "l_lookup" /\ ~th[t].wroteDbs
          /\ contains_key(databases, th[t].name)
          /\ get(databases, th[t].name).h.loaded
    /\ Cardinality({p[1] : p \in databases}) = 2

\* C36: no call of query_ip, query_cdn, get_or_load_database, clear_cache
\* or cache_stats holds the handle-map lock and the query-cache lock at the
\* same time; under fair scheduling every call returns, unless a lookup
\* did not come back (it crashed or runs for ever).
InCall(t) == th[t].pc # "idle"

NeverBothLocks == \A t \in Threads : ~(Holds(dbs_lock, t) /\ Holds(cache_lock, t))

C36_OneLockAtATime ==
    /\ [](pc = "manager" => NeverBothLocks)
    /\ \A t \in Threads :
          (pc = "manager" /\ InCall(t)) ~> (~InCall(t) \/ hist.crashed)

\* one caller holds the write lock of the query cache while the other
\* holds a read lock of the handle map
C36_Witness ==
    /\ pc = "manager"
    /\ \E t, u \in Threads :
          /\ t # u
          /\ cache_lock.writer = t
          /\ u \in dbs_lock.readers
          /\ th[u].pc = "l_lookup"

\* C37: for every IPIP file of at least 16 bytes and every header value, the
\* u32 computations of the load (index_end - index_start, index_end +
\* index_count * 16) neither underflow nor pass 2^32 - 1: the load does not
\* panic where overflow is checked, and the handle it leaves has
\* index_start <= index_end.
C37_IPIPArithmeticFits ==
    (/\ ghost.kind = "load" /\ ghost.fmt = "ipip"
     /\ pc \in {"loaded", "rejected"}
     /\ Len(data) >= IPIP_RECORD)
        => /\ res.kind # "panic"
           /\ hdl.loaded => BLeq(hdl.header.index_start, hdl.header.index_end)

====
